---------------------------- MODULE Spec2Model ----------------------------
(* Model of the atlas editor backend (backend/app.py): the ImageStore      *)
(* registry, the Renderer, and the Flask route handlers, with the part of  *)
(* PIL's Image the renderer uses (crop, new, rotate, PNG save).            *)
EXTENDS Integers, Sequences, FiniteSets, TLC

(***************************************************************************)
(* Bounds of the model.                                                    *)
(***************************************************************************)
\* number of uploads the registry accepts (ids are 1..MaxIds)
MaxIds == 2
\* requests address cell indices 0..MaxCell
MaxCell == 1
\* total number of operations held in all logs of the registry (Spec)
MaxOps == 2
\* total number of operations held in the logs under SpecRender
MaxLog == 3
\* registry contents recorded during one render call under SpecConc
MaxSeen == 3
\* requests handled at the same time under SpecRace
MaxThreads == 2

(***************************************************************************)
(* PIL.Image: an image is a record [mode, w, h, px], px a function of the  *)
(* coordinate <<x, y>>, 0 <= x < w, 0 <= y < h.                            *)
(***************************************************************************)
Coords(w, h) == (0 .. (w - 1)) \X (0 .. (h - 1))

\* opaque black
OpaqueBlack == <<0, 0, 0, 255>>

\* The colour (0, 0, 0, 0) of app.py's Image.new and rotate fillcolor.
Transparent == <<0, 0, 0, 0>>

\* Image.new(mode, (w, h), color)
new_image(mode, w, h, color) ==
    [mode |-> mode, w |-> w, h |-> h, px |-> [p \in Coords(w, h) |-> color]]

\* Image.convert('RGBA') of one pixel: an RGB pixel gets alpha 255, a
\* grey ("L") pixel its value in the three colours and alpha 255.
convert_pixel(mode, p) ==
    IF mode = "RGBA" THEN p
    ELSE IF mode = "L" THEN <<p[1], p[1], p[1], 255>>
    ELSE <<p[1], p[2], p[3], 255>>

\* Image.convert('RGBA')
convert_rgba(im) ==
    [mode |-> "RGBA", w |-> im.w, h |-> im.h,
     px |-> [p \in Coords(im.w, im.h) |-> convert_pixel(im.mode, im.px[p])]]

\* Image.crop with the box taken at the origin
crop_at_origin(im, x0, y0, x1, y1) ==
    [mode |-> im.mode, w |-> x1 - x0, h |-> y1 - y0,
     px |-> [p \in Coords(x1 - x0, y1 - y0) |->
               IF p[1] < im.w /\ p[2] < im.h THEN im.px[p] ELSE <<0, 0, 0, 0>>]]

\* Image.crop((x0, y0, x1, y1)): the part of the box outside the image is
\* zero-filled.
crop(im, x0, y0, x1, y1) ==
    [mode |-> im.mode, w |-> x1 - x0, h |-> y1 - y0,
     px |-> [p \in Coords(x1 - x0, y1 - y0) |->
               IF p[1] + x0 < im.w /\ p[2] + y0 < im.h
                  /\ p[1] + x0 >= 0 /\ p[2] + y0 >= 0
               THEN im.px[<<p[1] + x0, p[2] + y0>>]
               ELSE Transparent]]

\* cos and sin of -angle degrees for angle a multiple of 90, as rotate()
\* rounds them.
cos_neg(angle) == CASE angle = 0 -> 1 [] angle = 90 -> 0
                    [] angle = 180 -> -1 [] OTHER -> 0
sin_neg(angle) == CASE angle = 0 -> 0 [] angle = 90 -> -1
                    [] angle = 180 -> 0 [] OTHER -> 1

\* Image.transform((w, h), AFFINE, matrix, NEAREST, fillcolor): the output
\* pixel (x, y) reads the input at the affine image of its centre
\* (x + 1/2, y + 1/2), floored; outside the input it keeps the fill colour.
\* The matrix of rotate() about the centre (w/2, h/2) is
\*   [c, s, w/2 - c*w/2 - s*h/2, -s, c, h/2 + s*w/2 - c*h/2];
\* coordinates are kept doubled so that the halves stay integers.
affine_rotate(im, angle, fill) ==
    LET c == cos_neg(angle)
        s == sin_neg(angle)
        tx2 == im.w - c * im.w - s * im.h
        ty2 == im.h + s * im.w - c * im.h
        xin(p) == (2 * (c * p[1] + s * p[2]) + tx2 + c + s) \div 2
        yin(p) == (2 * (c * p[2] - s * p[1]) + ty2 + c - s) \div 2
    IN [mode |-> im.mode, w |-> im.w, h |-> im.h,
        px |-> [p \in Coords(im.w, im.h) |->
                  IF xin(p) >= 0 /\ xin(p) < im.w
                     /\ yin(p) >= 0 /\ yin(p) < im.h
                  THEN im.px[<<xin(p), yin(p)>>]
                  ELSE fill]]

\* a quarter turn where ROTATE_180 was meant
transpose_180_quarter(im) == affine_rotate(im, 90, Transparent)

\* Image.transpose(ROTATE_180)
transpose_180(im) ==
    [mode |-> im.mode, w |-> im.w, h |-> im.h,
     px |-> [p \in Coords(im.w, im.h) |->
               im.px[<<im.w - 1 - p[1], im.h - 1 - p[2]>>]]]

\* ROTATE_270 where ROTATE_90 was meant
transpose_90_cw(im) ==
    [mode |-> im.mode, w |-> im.h, h |-> im.w,
     px |-> [p \in Coords(im.h, im.w) |-> im.px[<<p[2], im.h - 1 - p[1]>>]]]

\* Image.transpose(ROTATE_90): counter-clockwise, (x, y) goes to
\* (y, w - 1 - x); the output is h wide and w high.
transpose_90(im) ==
    [mode |-> im.mode, w |-> im.h, h |-> im.w,
     px |-> [p \in Coords(im.h, im.w) |-> im.px[<<im.w - 1 - p[2], p[1]>>]]]

\* Image.transpose(ROTATE_270): clockwise, (x, y) goes to (h - 1 - y, x).
transpose_270(im) ==
    [mode |-> im.mode, w |-> im.h, h |-> im.w,
     px |-> [p \in Coords(im.h, im.w) |-> im.px[<<p[2], im.h - 1 - p[1]>>]]]

\* Image.rotate with expand=True: a quarter turn swaps width and height
rotate_expand(im, angle, fill) ==
    LET a == angle % 360
    IN IF a = 0 THEN im
       ELSE IF a = 180 THEN transpose_180(im)
       ELSE IF a = 90 THEN transpose_90(im)
       ELSE transpose_270(im)

\* Image.rotate(angle, expand=False, fillcolor=fill), angle a multiple of
\* 90: counter-clockwise by angle mod 360, same size.
rotate(im, angle, fill) ==
    LET a == angle % 360
    IN IF a = 0 THEN im
       ELSE IF a = 180 THEN transpose_180(im)
       ELSE IF a = 90 /\ im.w = im.h THEN transpose_90(im)
       ELSE IF a = 270 /\ im.w = im.h THEN transpose_270(im)
       ELSE affine_rotate(im, a, fill)

\* Image.save(buffer, 'PNG'): h scanlines of w pixels each.
png_save(im) ==
    [w |-> im.w, h |-> im.h,
     rows |-> [y \in 1 .. im.h |-> [x \in 1 .. im.w |-> im.px[<<x - 1, y - 1>>]]]]

\* Image.open of a PNG written by png_save.
png_open(png) ==
    [mode |-> "RGBA", w |-> png.w, h |-> png.h,
     px |-> [p \in Coords(png.w, png.h) |-> png.rows[p[2] + 1][p[1] + 1]]]

(***************************************************************************)
(* The requests the handlers are given.                                    *)
(***************************************************************************)
Ids == 1 .. MaxIds
CellIds == 0 .. MaxCell

\* The pixel of an uploaded picture at (x, y): every position differs, and
\* an RGBA source has pixels that are not opaque.
source_pixel(mode, x, y) ==
    IF mode = "RGB" THEN <<x + 1, y + 1, 9>>
    ELSE IF mode = "L" THEN <<x + y + 1>>
    ELSE <<x + 1, y + 1, 9, IF (x + y) % 2 = 0 THEN 128 ELSE 255>>

source_image(mode, w, h) ==
    [mode |-> mode, w |-> w, h |-> h,
     px |-> [p \in Coords(w, h) |-> source_pixel(mode, p[1], p[2])]]

\* request.files of an upload: no file part, an empty filename, bytes
\* that are no image (Image.open raises), a picture cut short (Image.open
\* reads the header, the convert or save of store_image raises), or a
\* picture.
BadUploads ==
    {[kind |-> "nofile"], [kind |-> "emptyname"], [kind |-> "garbage"],
     [kind |-> "truncated"]}
Upload(image) == [kind |-> "image", image |-> image]

\* request.json of an operation request.
OpRequests ==
    {[type |-> "erase"], [type |-> "invalid"], [type |-> "rotate"], [degree |-> 90]}
    \cup {[type |-> "rotate", degree |-> d] : d \in {90, 180, 270, 45}}

(***************************************************************************)
(* State.                                                                  *)
(***************************************************************************)
VARIABLES
    image_paths,   \* ImageStore.image_paths: id -> path of its PNG file
    files,         \* the temporary directory: path -> PNG written there
    grid_params,   \* ImageStore.grid_params: id -> grid
    cell_ops,      \* ImageStore.cell_ops: id -> (cell index -> log)
    next_id,       \* the ids uuid4 has issued are 1 .. next_id - 1
    shadow,        \* per (id, cell): the operations acknowledged, as a stack
    call,          \* the render call in flight beside the other requests
    seen,          \* what the registry held at each instant of that call
    reqs           \* per thread: the request it handles, its position and locals

store_vars == <<image_paths, files, grid_params, cell_ops>>
vars == <<image_paths, files, grid_params, cell_ops, next_id, shadow, call, seen,
          reqs>>

\* no render call is in flight
NoCall == [pc |-> "idle"]

\* the server's threads that handle the requests of SpecRace
Threads == 1 .. MaxThreads

\* no request is being handled
NoReqs == [t \in Threads |-> [pc |-> "idle"]]

(***************************************************************************)
(* ImageStore.                                                             *)
(***************************************************************************)
\* f"{image_id}.png" in the temporary directory
image_path(image_id) == image_id

\* d[k] = v of a Python dict
dict_set(d, k, v) == [x \in DOMAIN d \cup {k} |-> IF x = k THEN v ELSE d[x]]
\* d.pop(k, None)
dict_pop(d, k) == [x \in DOMAIN d \ {k} |-> d[x]]
EmptyDict == [x \in {} |-> 0]

\* ImageStore.get_image is not None
has_image(image_id) ==
    image_id \in DOMAIN image_paths /\ image_paths[image_id] \in DOMAIN files

\* ImageStore.get_image, where has_image
get_image(image_id) == png_open(files[image_paths[image_id]])

\* ImageStore.get_grid_params is not None
has_grid_params(image_id) == image_id \in DOMAIN grid_params

get_grid_params(image_id) == grid_params[image_id]

\* get_cell_ops with self.cell_ops[image_id] for self.cell_ops.get(image_id,
\* {}): a KeyError where the id has no log dict
get_cell_ops_subscript(ops, image_id, cell_id) ==
    IF image_id \notin DOMAIN ops THEN <<"KeyError">>
    ELSE IF cell_id \in DOMAIN ops[image_id] THEN ops[image_id][cell_id]
    ELSE <<>>

\* ImageStore.get_cell_ops on the dict ops
get_cell_ops(ops, image_id, cell_id) ==
    IF image_id \in DOMAIN ops /\ cell_id \in DOMAIN ops[image_id]
    THEN ops[image_id][cell_id] ELSE <<>>

\* add_cell_op with insert(0, op) for append(op)
add_cell_op_insert0(ops, image_id, cell_id, op) ==
    LET with_key == IF cell_id \notin DOMAIN ops[image_id]
                    THEN dict_set(ops[image_id], cell_id, <<>>)
                    ELSE ops[image_id]
    IN dict_set(ops, image_id,
                dict_set(with_key, cell_id, <<op>> \o with_key[cell_id]))

\* add_cell_op with "self.cell_ops[image_id] = {cell_id: []}" for the
\* creation of the cell's list: the first operation of a cell drops the logs
\* of the other cells of the id
add_cell_op_fresh_dict(ops, image_id, cell_id, op) ==
    LET with_key == IF cell_id \notin DOMAIN ops[image_id]
                    THEN dict_set(EmptyDict, cell_id, <<>>)
                    ELSE ops[image_id]
    IN dict_set(ops, image_id,
                dict_set(with_key, cell_id, Append(with_key[cell_id], op)))

\* ImageStore.add_cell_op on the dict ops, where image_id is a key of it
add_cell_op(ops, image_id, cell_id, op) ==
    LET with_key == IF cell_id \notin DOMAIN ops[image_id]
                    THEN dict_set(ops[image_id], cell_id, <<>>)
                    ELSE ops[image_id]
    IN dict_set(ops, image_id,
                dict_set(with_key, cell_id, Append(with_key[cell_id], op)))

\* can_undo without the test that the list is not empty
can_undo_any_list(ops, image_id, cell_id) ==
    /\ image_id \in DOMAIN ops
    /\ cell_id \in DOMAIN ops[image_id]

\* the condition of ImageStore.undo_cell_op: its return value
can_undo(ops, image_id, cell_id) ==
    /\ image_id \in DOMAIN ops
    /\ cell_id \in DOMAIN ops[image_id]
    /\ ops[image_id][cell_id] # <<>>

\* list.pop(0) for list.pop()
list_pop_first(l) == SubSeq(l, 2, Len(l))

\* list.pop()
list_pop(l) == SubSeq(l, 1, Len(l) - 1)

\* undo_cell_op with list.clear() for list.pop()
undo_cell_op_clear(ops, image_id, cell_id) ==
    IF can_undo(ops, image_id, cell_id)
    THEN dict_set(ops, image_id, dict_set(ops[image_id], cell_id, <<>>))
    ELSE ops

\* ImageStore.undo_cell_op on the dict ops
undo_cell_op(ops, image_id, cell_id) ==
    IF can_undo(ops, image_id, cell_id)
    THEN dict_set(ops, image_id,
                  dict_set(ops[image_id], cell_id, list_pop(ops[image_id][cell_id])))
    ELSE ops

(***************************************************************************)
(* Renderer.                                                               *)
(***************************************************************************)
\* apply_op with rotate(degree) for rotate(-degree)
apply_op_ccw(cell_image, op, cell_width, cell_height) ==
    IF op.type = "erase"
    THEN new_image("RGBA", cell_width, cell_height, Transparent)
    ELSE IF op.type = "rotate"
    THEN rotate(cell_image, op.degree, Transparent)
    ELSE cell_image

\* one pass of the body of "for op in ops" on the working image
apply_op(cell_image, op, cell_width, cell_height) ==
    IF op.type = "erase"
    THEN new_image("RGBA", cell_width, cell_height, Transparent)
    ELSE IF op.type = "rotate"
    THEN rotate(cell_image, 0 - op.degree, Transparent)
    ELSE cell_image

\* "for op in ops[:-1]" from the i-th entry on
RECURSIVE replay_but_last(_, _, _, _, _)
replay_but_last(cell_image, ops, i, cell_width, cell_height) ==
    IF i >= Len(ops) THEN cell_image
    ELSE replay_but_last(apply_op(cell_image, ops[i], cell_width, cell_height),
                         ops, i + 1, cell_width, cell_height)

\* "for op in ops" from the i-th entry on
RECURSIVE replay_from(_, _, _, _, _)
replay_from(cell_image, ops, i, cell_width, cell_height) ==
    IF i > Len(ops) THEN cell_image
    ELSE replay_from(apply_op(cell_image, ops[i], cell_width, cell_height),
                     ops, i + 1, cell_width, cell_height)

\* the cell image of Renderer.render_cell before it is saved (cols # 0)
cell_image_of(image, grid, ops, cell_id) ==
    LET row == cell_id \div grid.cols
        col == cell_id % grid.cols
        x == col * grid.cellWidth
        y == row * grid.cellHeight
    IN replay_from(crop(image, x, y, x + grid.cellWidth, y + grid.cellHeight),
                   ops, 1, grid.cellWidth, grid.cellHeight)

\* Image.save of an image with no pixels raises
save_raises(im) == im.w = 0 \/ im.h = 0

NoneResult == [kind |-> "none"]
ErrorResult == [kind |-> "error"]
PngResult(im) == [kind |-> "png", png |-> png_save(im)]

\* Renderer.render_cell from "row = cell_id // cols" on, ops being what
\* store.get_cell_ops returned: an exception or the PNG bytes
render_cell_with(ops, image, grid, cell_id) ==
    IF grid.cols = 0 THEN ErrorResult
    ELSE LET im == cell_image_of(image, grid, ops, cell_id)
         IN IF save_raises(im) THEN ErrorResult ELSE PngResult(im)

\* render_cell without the test of grid_params: subscripting None raises
render_cell_unchecked(image_id, cell_id) ==
    IF ~has_image(image_id) THEN NoneResult
    ELSE IF ~has_grid_params(image_id) THEN ErrorResult
    ELSE render_cell_with(get_cell_ops(cell_ops, image_id, cell_id),
                          get_image(image_id), get_grid_params(image_id), cell_id)

\* Renderer.render_cell: None, an exception, or the PNG bytes
render_cell(image_id, cell_id) ==
    IF ~has_image(image_id) \/ ~has_grid_params(image_id) THEN NoneResult
    ELSE render_cell_with(get_cell_ops(cell_ops, image_id, cell_id),
                          get_image(image_id), get_grid_params(image_id), cell_id)

\* paste with the box at the origin for (x, y)
paste_at_origin(output_image, cell_image, x, y) ==
    [output_image EXCEPT !.px =
        [p \in Coords(output_image.w, output_image.h) |->
            IF p[1] < cell_image.w /\ p[2] < cell_image.h
            THEN cell_image.px[p]
            ELSE output_image.px[p]]]

\* Image.paste(cell_image, (x, y)): overwrites the box
paste(output_image, cell_image, x, y) ==
    [output_image EXCEPT !.px =
        [p \in Coords(output_image.w, output_image.h) |->
            IF p[1] >= x /\ p[1] < x + cell_image.w
               /\ p[2] >= y /\ p[2] < y + cell_image.h
            THEN cell_image.px[<<p[1] - x, p[2] - y>>]
            ELSE output_image.px[p]]]

\* the body of the loops of Renderer.render_atlas for cell cell_id, ops
\* being store.cell_ops: the cell is cropped, its log replayed, the result
\* pasted
atlas_step(ops, output_image, image, grid, image_id, cell_id) ==
    LET row == cell_id \div grid.cols
        col == cell_id % grid.cols
        x == col * grid.cellWidth
        y == row * grid.cellHeight
        cell_image == replay_from(
            crop(image, x, y, x + grid.cellWidth, y + grid.cellHeight),
            get_cell_ops(ops, image_id, cell_id), 1,
            grid.cellWidth, grid.cellHeight)
    IN paste(output_image, cell_image, x, y)

\* the two nested loops of Renderer.render_atlas from cell cell_id on
RECURSIVE atlas_from(_, _, _, _, _, _)
atlas_from(ops, output_image, image, grid, image_id, cell_id) ==
    IF cell_id >= grid.rows * grid.cols THEN output_image
    ELSE atlas_from(ops, atlas_step(ops, output_image, image, grid, image_id, cell_id),
                    image, grid, image_id, cell_id + 1)

\* Renderer.render_atlas from "rows, cols = ..." on, ops being
\* store.cell_ops: an exception or the PNG bytes
render_atlas_with(ops, image, grid, image_id) ==
    LET output_image == new_image("RGBA", grid.cols * grid.cellWidth,
                                  grid.rows * grid.cellHeight, Transparent)
    IN IF save_raises(output_image) THEN ErrorResult
       ELSE PngResult(atlas_from(ops, output_image, image, grid, image_id, 0))

\* Renderer.render_atlas
render_atlas(image_id) ==
    IF ~has_image(image_id) \/ ~has_grid_params(image_id) THEN NoneResult
    ELSE render_atlas_with(cell_ops, get_image(image_id),
                           get_grid_params(image_id), image_id)

(***************************************************************************)
(* The route handlers: per route, the response it sends (status is the     *)
(* HTTP status, 500 where the handler raises) and the action on the store. *)
(***************************************************************************)
Response(status, body) == [status |-> status, body |-> body]

\* POST /api/image/upload: the response
upload_response(file) ==
    IF file.kind \in {"nofile", "emptyname"} THEN Response(400, "error")
    ELSE IF file.kind \in {"garbage", "truncated"} THEN Response(500, "error")
    ELSE Response(200, [imageId |-> next_id, width |-> file.image.w,
                        height |-> file.image.h])

\* store_image without the conversion
stored_png_raw(image) == png_save(image)

\* ImageStore.store_image: the image written to the temporary directory
stored_png(image) ==
    png_save(IF image.mode # "RGBA" THEN convert_rgba(image) ELSE image)

\* upload_image that registers the id before the picture is decoded: a
\* failed decoding leaves the id with an empty log dict
upload_image_registering_first(file) ==
    IF file.kind \in {"nofile", "emptyname"}
    THEN UNCHANGED <<store_vars, next_id>>
    ELSE LET image_id == next_id
         IN /\ next_id' = next_id + 1
            /\ cell_ops' = dict_set(cell_ops, image_id, EmptyDict)
            /\ IF file.kind # "image"
               THEN UNCHANGED <<files, image_paths, grid_params>>
               ELSE /\ files' = dict_set(files, image_path(image_id),
                                         stored_png(file.image))
                    /\ image_paths' = dict_set(image_paths, image_id,
                                               image_path(image_id))
                    /\ UNCHANGED grid_params

\* POST /api/image/upload
upload_image(file) ==
    IF file.kind # "image"
    THEN UNCHANGED <<store_vars, next_id>>
    ELSE LET image_id == next_id
         IN /\ next_id' = next_id + 1
            /\ files' = dict_set(files, image_path(image_id), stored_png(file.image))
            /\ image_paths' = dict_set(image_paths, image_id, image_path(image_id))
            /\ cell_ops' = dict_set(cell_ops, image_id, EmptyDict)
            /\ UNCHANGED grid_params

\* a preview that sends the edited atlas once the picture is sliced
get_image_preview_response_edited(image_id) ==
    IF ~has_image(image_id) THEN Response(404, "Image not found")
    ELSE IF has_grid_params(image_id) /\ render_atlas(image_id).kind = "png"
    THEN Response(200, render_atlas(image_id).png)
    ELSE Response(200, files[image_paths[image_id]])

\* GET /api/image/<image_id>/preview: the response
get_image_preview_response(image_id) ==
    IF ~has_image(image_id) THEN Response(404, "Image not found")
    ELSE Response(200, files[image_paths[image_id]])

\* GET /api/image/<image_id>/preview
get_image_preview(image_id) == UNCHANGED <<store_vars, next_id>>

\* the cell list of slice_image: range(rows) x range(cols), empty where
\* rows or cols is not positive
cell_list(rows, cols, cell_width, cell_height) ==
    [k \in 1 .. (IF rows > 0 /\ cols > 0 THEN rows * cols ELSE 0) |->
        LET row == (k - 1) \div cols
            col == (k - 1) % cols
        IN [cellId |-> row * cols + col, row |-> row, col |-> col,
            x |-> col * cell_width, y |-> row * cell_height,
            w |-> cell_width, h |-> cell_height]]

has_key(data, k) == k \in DOMAIN data

\* slice_grid with the divisions rounded up
slice_grid_ceil(image, data) ==
    IF has_key(data, "rows") /\ has_key(data, "cols")
    THEN [rows |-> data.rows, cols |-> data.cols,
          cellWidth |-> (image.w + data.cols - 1) \div data.cols,
          cellHeight |-> (image.h + data.rows - 1) \div data.rows]
    ELSE [rows |-> (image.h + data.cellHeight - 1) \div data.cellHeight,
          cols |-> (image.w + data.cellWidth - 1) \div data.cellWidth,
          cellWidth |-> data.cellWidth, cellHeight |-> data.cellHeight]

\* the grid slice_image computes, where no division raises
slice_grid(image, data) ==
    IF has_key(data, "rows") /\ has_key(data, "cols")
    THEN [rows |-> data.rows, cols |-> data.cols,
          cellWidth |-> image.w \div data.cols,
          cellHeight |-> image.h \div data.rows]
    ELSE [rows |-> image.h \div data.cellHeight,
          cols |-> image.w \div data.cellWidth,
          cellWidth |-> data.cellWidth, cellHeight |-> data.cellHeight]

\* a division of slice_image raises ZeroDivisionError
slice_raises(data) ==
    IF has_key(data, "rows") /\ has_key(data, "cols")
    THEN data.cols = 0 \/ data.rows = 0
    ELSE data.cellWidth = 0 \/ data.cellHeight = 0

\* the status of slice_image's response
slice_status(image_id, data) ==
    IF ~has_image(image_id) THEN 404
    ELSE IF ~(has_key(data, "rows") /\ has_key(data, "cols"))
            /\ ~(has_key(data, "cellWidth") /\ has_key(data, "cellHeight"))
    THEN 400
    ELSE IF slice_raises(data) THEN 500
    ELSE 200

\* POST /api/image/<image_id>/slice: the response
slice_response(image_id, data) ==
    IF slice_status(image_id, data) # 200
    THEN Response(slice_status(image_id, data), "error")
    ELSE LET g == slice_grid(get_image(image_id), data)
         IN Response(200, [rows |-> g.rows, cols |-> g.cols,
                           cellWidth |-> g.cellWidth, cellHeight |-> g.cellHeight,
                           cells |-> cell_list(g.rows, g.cols,
                                               g.cellWidth, g.cellHeight)])

\* slice_image that also drops the logs of its id
slice_image_clearing(image_id, data) ==
    IF slice_status(image_id, data) # 200
    THEN UNCHANGED <<store_vars, next_id>>
    ELSE /\ grid_params' = dict_set(grid_params, image_id,
                                    slice_grid(get_image(image_id), data))
         /\ cell_ops' = dict_set(cell_ops, image_id, EmptyDict)
         /\ UNCHANGED <<image_paths, files, next_id>>

\* slice_image that drops the logs of its id where the cells change size
slice_image_clearing_resized(image_id, data) ==
    IF slice_status(image_id, data) # 200
    THEN UNCHANGED <<store_vars, next_id>>
    ELSE LET g == slice_grid(get_image(image_id), data)
         IN /\ grid_params' = dict_set(grid_params, image_id, g)
            /\ cell_ops' = IF /\ has_grid_params(image_id)
                              /\ <<g.cellWidth, g.cellHeight>>
                                   # <<get_grid_params(image_id).cellWidth,
                                       get_grid_params(image_id).cellHeight>>
                           THEN dict_set(cell_ops, image_id, EmptyDict)
                           ELSE cell_ops
            /\ UNCHANGED <<image_paths, files, next_id>>

\* POST /api/image/<image_id>/slice
slice_image(image_id, data) ==
    IF slice_status(image_id, data) # 200
    THEN UNCHANGED <<store_vars, next_id>>
    ELSE /\ grid_params' = dict_set(grid_params, image_id,
                                    slice_grid(get_image(image_id), data))
         /\ UNCHANGED <<image_paths, files, cell_ops, next_id>>

\* the response of a handler that sends what a Renderer method returned
render_response(r) ==
    IF r.kind = "none" THEN Response(404, "not found")
    ELSE IF r.kind = "error" THEN Response(500, "error")
    ELSE Response(200, r.png)

\* GET /api/image/<image_id>/cell/<cell_id>/preview: the response
get_cell_preview_response(image_id, cell_id) ==
    render_response(render_cell(image_id, cell_id))

\* a cell preview that takes the operations off the log as it replays them
get_cell_preview_consuming(image_id, cell_id) ==
    /\ cell_ops' = IF image_id \in DOMAIN cell_ops
                      /\ cell_id \in DOMAIN cell_ops[image_id]
                   THEN dict_set(cell_ops, image_id,
                                 dict_set(cell_ops[image_id], cell_id, <<>>))
                   ELSE cell_ops
    /\ UNCHANGED <<image_paths, files, grid_params, next_id>>

\* GET /api/image/<image_id>/cell/<cell_id>/preview
get_cell_preview(image_id, cell_id) == UNCHANGED <<store_vars, next_id>>

\* parse_op that takes any degree the request holds
parse_op_any_degree(data) ==
    IF has_key(data, "type") /\ data.type = "erase" THEN [type |-> "erase"]
    ELSE IF has_key(data, "type") /\ data.type = "rotate" /\ has_key(data, "degree")
    THEN [type |-> "rotate", degree |-> data.degree]
    ELSE [type |-> "invalid"]

\* the operation apply_cell_operation builds; "invalid" where it answers 400
parse_op(data) ==
    IF has_key(data, "type") /\ data.type = "erase" THEN [type |-> "erase"]
    ELSE IF has_key(data, "type") /\ data.type = "rotate"
    THEN IF has_key(data, "degree") /\ data.degree \in {90, 180, 270}
         THEN [type |-> "rotate", degree |-> data.degree]
         ELSE [type |-> "invalid"]
    ELSE [type |-> "invalid"]

\* POST /api/image/<image_id>/cell/<cell_id>/op: the response; add_cell_op
\* raises KeyError where the id has no log dict
apply_cell_operation_response(image_id, cell_id, data) ==
    IF parse_op(data).type = "invalid" THEN Response(400, "error")
    ELSE IF image_id \notin DOMAIN cell_ops THEN Response(500, "error")
    ELSE Response(200, [ok |-> TRUE])

\* apply_cell_operation that rejects a cell outside the grid
apply_cell_operation_checked(image_id, cell_id, data) ==
    IF \/ apply_cell_operation_response(image_id, cell_id, data).status # 200
       \/ ~has_grid_params(image_id)
       \/ cell_id >= get_grid_params(image_id).rows * get_grid_params(image_id).cols
    THEN UNCHANGED <<store_vars, next_id>>
    ELSE /\ cell_ops' = add_cell_op(cell_ops, image_id, cell_id, parse_op(data))
         /\ UNCHANGED <<image_paths, files, grid_params, next_id>>

\* POST /api/image/<image_id>/cell/<cell_id>/op
apply_cell_operation(image_id, cell_id, data) ==
    IF apply_cell_operation_response(image_id, cell_id, data).status # 200
    THEN UNCHANGED <<store_vars, next_id>>
    ELSE /\ cell_ops' = add_cell_op(cell_ops, image_id, cell_id, parse_op(data))
         /\ UNCHANGED <<image_paths, files, grid_params, next_id>>

\* POST /api/image/<image_id>/cell/<cell_id>/undo: the response
undo_cell_operation_response(image_id, cell_id) ==
    Response(200, [ok |-> can_undo(cell_ops, image_id, cell_id)])

\* POST /api/image/<image_id>/cell/<cell_id>/undo
undo_cell_operation(image_id, cell_id) ==
    /\ cell_ops' = undo_cell_op(cell_ops, image_id, cell_id)
    /\ UNCHANGED <<image_paths, files, grid_params, next_id>>

\* DELETE /api/image/<image_id>/delete: the response (delete_image of the
\* store returns True on every path)
delete_image_response(image_id) == Response(200, [ok |-> TRUE])

\* delete_image that leaves the logs of its id in cell_ops
delete_image_keeps_logs(image_id) ==
    /\ files' = IF has_image(image_id) THEN dict_pop(files, image_paths[image_id])
                ELSE files
    /\ image_paths' = dict_pop(image_paths, image_id)
    /\ grid_params' = dict_pop(grid_params, image_id)
    /\ UNCHANGED <<cell_ops, next_id>>

\* delete_image that leaves the grid of its id in grid_params
delete_image_keeps_grid(image_id) ==
    /\ files' = IF has_image(image_id) THEN dict_pop(files, image_paths[image_id])
                ELSE files
    /\ image_paths' = dict_pop(image_paths, image_id)
    /\ cell_ops' = dict_pop(cell_ops, image_id)
    /\ UNCHANGED <<grid_params, next_id>>

\* ImageStore.delete_image, called by DELETE /api/image/<image_id>/delete
delete_image(image_id) ==
    /\ files' = IF has_image(image_id) THEN dict_pop(files, image_paths[image_id])
                ELSE files
    /\ image_paths' = dict_pop(image_paths, image_id)
    /\ grid_params' = dict_pop(grid_params, image_id)
    /\ cell_ops' = dict_pop(cell_ops, image_id)
    /\ UNCHANGED next_id

\* GET /api/image/<image_id>/export: the response
export_atlas_response(image_id) == render_response(render_atlas(image_id))

\* GET /api/image/<image_id>/export
export_atlas(image_id) == UNCHANGED <<store_vars, next_id>>

(***************************************************************************)
(* The acknowledged operations, kept as a stack per (id, cell): an         *)
(* operation answered 200 is pushed, an undo answered ok pops, a delete    *)
(* drops the stacks of its id.                                             *)
(***************************************************************************)
NoStacks == [i \in Ids |-> [c \in CellIds |-> <<>>]]

Pushed(image_id, cell_id, data) ==
    shadow' = IF apply_cell_operation_response(image_id, cell_id, data).status = 200
              THEN [shadow EXCEPT ![image_id][cell_id] = Append(@, parse_op(data))]
              ELSE shadow

Popped(image_id, cell_id) ==
    shadow' = IF undo_cell_operation_response(image_id, cell_id).body.ok
              THEN [shadow EXCEPT ![image_id][cell_id] = SubSeq(@, 1, Len(@) - 1)]
              ELSE shadow

Dropped(image_id) ==
    shadow' = [shadow EXCEPT ![image_id] = [c \in CellIds |-> <<>>]]

RECURSIVE sum_lens(_, _)
sum_lens(d, keys) ==
    IF keys = {} THEN 0
    ELSE LET k == CHOOSE x \in keys : TRUE
         IN Len(d[k]) + sum_lens(d, keys \ {k})

RECURSIVE total_ops(_, _)
total_ops(ops, ids) ==
    IF ids = {} THEN 0
    ELSE LET i == CHOOSE x \in ids : TRUE
         IN sum_lens(ops[i], DOMAIN ops[i]) + total_ops(ops, ids \ {i})

(***************************************************************************)
(* Spec: the registry under every request, handled one at a time.          *)
(***************************************************************************)
Uploads ==
    BadUploads \cup {Upload(source_image("RGB", 2, 2)),
                     Upload(source_image("RGBA", 1, 2)),
                     Upload(source_image("L", 2, 1))}

\* request.json of the slice requests
SliceRequests ==
    {[rows |-> 1, cols |-> 2], [cellWidth |-> 1, cellHeight |-> 1],
     [rows |-> 0, cols |-> 1], [rows |-> 1]}

Init ==
    /\ image_paths = EmptyDict
    /\ files = EmptyDict
    /\ grid_params = EmptyDict
    /\ cell_ops = EmptyDict
    /\ next_id = 1
    /\ shadow = NoStacks
    /\ call = NoCall
    /\ seen = {}
    /\ reqs = NoReqs

\* the model's bound on an operation request: the logs hold MaxOps entries
OpsBound(data) ==
    parse_op(data).type # "invalid" => total_ops(cell_ops, DOMAIN cell_ops) < MaxOps

\* the model's bound on an upload: MaxIds ids are issued
IdsBound(file) == file.kind = "image" => next_id <= MaxIds

Next ==
    \/ \E file \in Uploads :
          IdsBound(file) /\ upload_image(file) /\ UNCHANGED <<shadow, call, seen, reqs>>
    \/ \E image_id \in Ids :
          get_image_preview(image_id) /\ UNCHANGED <<shadow, call, seen, reqs>>
    \/ \E image_id \in Ids, data \in SliceRequests :
          slice_image(image_id, data) /\ UNCHANGED <<shadow, call, seen, reqs>>
    \/ \E image_id \in Ids, cell_id \in CellIds :
          get_cell_preview(image_id, cell_id) /\ UNCHANGED <<shadow, call, seen, reqs>>
    \/ \E image_id \in Ids, cell_id \in CellIds, data \in OpRequests :
          /\ OpsBound(data)
          /\ apply_cell_operation(image_id, cell_id, data)
          /\ Pushed(image_id, cell_id, data)
          /\ UNCHANGED <<call, seen, reqs>>
    \/ \E image_id \in Ids, cell_id \in CellIds :
          /\ undo_cell_operation(image_id, cell_id)
          /\ Popped(image_id, cell_id)
          /\ UNCHANGED <<call, seen, reqs>>
    \/ \E image_id \in Ids :
          delete_image(image_id) /\ Dropped(image_id) /\ UNCHANGED <<call, seen, reqs>>
    \/ \E image_id \in Ids :
          export_atlas(image_id) /\ UNCHANGED <<shadow, call, seen, reqs>>

Spec == Init /\ [][Next]_vars

(***************************************************************************)
(* SpecRender: one stored, sliced picture; operations, undos and renders.  *)
(***************************************************************************)
\* the uploads and slice requests the rendered pictures come from: square
\* cells (2x2, 3x3), non-square cells (3x2, 2x1, 4x2), a grid that leaves a
\* remainder strip, and a grid with more columns than pixels
RenderInputs ==
    {[image |-> source_image("RGBA", 2, 2), data |-> [rows |-> 1, cols |-> 1]],
     [image |-> source_image("RGB", 3, 3), data |-> [rows |-> 1, cols |-> 1]],
     [image |-> source_image("RGBA", 4, 2), data |-> [rows |-> 1, cols |-> 2]],
     [image |-> source_image("RGB", 3, 2), data |-> [rows |-> 1, cols |-> 1]],
     [image |-> source_image("RGBA", 4, 2), data |-> [rows |-> 2, cols |-> 2]],
     [image |-> source_image("RGB", 4, 2), data |-> [cellWidth |-> 4, cellHeight |-> 2]],
     [image |-> source_image("RGB", 5, 3), data |-> [cellWidth |-> 2, cellHeight |-> 2]],
     [image |-> source_image("RGB", 3, 2), data |-> [rows |-> 1, cols |-> 4]]}

\* the state after upload(inp.image) and slice(1, inp.data) on a new store
InitRender ==
    \E inp \in RenderInputs :
        /\ image_paths = dict_set(EmptyDict, 1, image_path(1))
        /\ files = dict_set(EmptyDict, image_path(1), stored_png(inp.image))
        /\ grid_params = dict_set(EmptyDict, 1,
                                  slice_grid(png_open(stored_png(inp.image)), inp.data))
        /\ cell_ops = dict_set(EmptyDict, 1, EmptyDict)
        /\ next_id = 2
        /\ shadow = NoStacks
        /\ call = NoCall
        /\ seen = {}
        /\ reqs = NoReqs

\* the model's bound on an operation request: the logs hold MaxLog entries
LogBound(data) ==
    parse_op(data).type # "invalid" => total_ops(cell_ops, DOMAIN cell_ops) < MaxLog

NextRender ==
    \/ \E cell_id \in CellIds, data \in OpRequests :
          /\ LogBound(data)
          /\ apply_cell_operation(1, cell_id, data)
          /\ Pushed(1, cell_id, data)
          /\ UNCHANGED <<call, seen, reqs>>
    \/ \E cell_id \in CellIds :
          undo_cell_operation(1, cell_id) /\ Popped(1, cell_id) /\ UNCHANGED <<call, seen, reqs>>
    \/ \E cell_id \in CellIds :
          get_cell_preview(1, cell_id) /\ UNCHANGED <<shadow, call, seen, reqs>>
    \/ export_atlas(1) /\ UNCHANGED <<shadow, call, seen, reqs>>

SpecRender == InitRender /\ [][NextRender]_vars

(***************************************************************************)
(* SpecSlice: one stored picture, sliced and sliced again between          *)
(* operations, undos and renders.                                          *)
(***************************************************************************)
\* the stored pictures: one every grid divides, one that leaves remainders
SliceImages == {source_image("RGB", 2, 2), source_image("RGBA", 5, 3)}

\* request.json of the slice requests: either pair, values that divide the
\* picture and values that do not, values larger than the picture, a zero
\* divisor in either pair, half a pair, nothing
GridRequests ==
    {[rows |-> 1, cols |-> 1], [rows |-> 1, cols |-> 2], [rows |-> 2, cols |-> 2],
     [rows |-> 1, cols |-> 3],
     [cellWidth |-> 1, cellHeight |-> 1], [cellWidth |-> 2, cellHeight |-> 2],
     [cellWidth |-> 3, cellHeight |-> 3],
     [rows |-> 0, cols |-> 1], [cellWidth |-> 1, cellHeight |-> 0],
     [rows |-> 1], [cellWidth |-> 2], [x \in {} |-> 0]}

\* the slice requests a client can send: GridRequests and a request with a
\* negative value, which slice_image answers like any other (what the
\* renderer does with the grid it stores is not followed here)
AnyGridRequests == GridRequests \cup {[rows |-> 1, cols |-> -3]}

\* request.json of the operation requests between the slices
GridOpRequests ==
    {[type |-> "erase"], [type |-> "rotate", degree |-> 90], [type |-> "flip"]}

\* the state after upload(image) on a new store
InitSlice ==
    \E image \in SliceImages :
        /\ image_paths = dict_set(EmptyDict, 1, image_path(1))
        /\ files = dict_set(EmptyDict, image_path(1), stored_png(image))
        /\ grid_params = EmptyDict
        /\ cell_ops = dict_set(EmptyDict, 1, EmptyDict)
        /\ next_id = 2
        /\ shadow = NoStacks
        /\ call = NoCall
        /\ seen = {}
        /\ reqs = NoReqs

NextSlice ==
    \/ \E data \in GridRequests : slice_image(1, data) /\ UNCHANGED <<shadow, call, seen, reqs>>
    \/ \E cell_id \in CellIds, data \in GridOpRequests :
          /\ LogBound(data)
          /\ apply_cell_operation(1, cell_id, data)
          /\ Pushed(1, cell_id, data)
          /\ UNCHANGED <<call, seen, reqs>>
    \/ \E cell_id \in CellIds :
          undo_cell_operation(1, cell_id) /\ Popped(1, cell_id) /\ UNCHANGED <<call, seen, reqs>>
    \/ \E cell_id \in CellIds :
          get_cell_preview(1, cell_id) /\ UNCHANGED <<shadow, call, seen, reqs>>
    \/ export_atlas(1) /\ UNCHANGED <<shadow, call, seen, reqs>>

SpecSlice == InitSlice /\ [][NextSlice]_vars

(***************************************************************************)
(* SpecConc: the server is threaded (app.run), so a render request runs    *)
(* its registry reads one at a time while other requests' handlers run in  *)
(* between.  call is the position of the one render request in flight      *)
(* with its local variables; seen records the registry contents of every   *)
(* instant from the request's arrival to its last read.                    *)
(***************************************************************************)
ConcImage == source_image("RGBA", 2, 2)

ConcSliceRequests == {[rows |-> 1, cols |-> 2], [rows |-> 2, cols |-> 1]}

ConcOpRequests == {[type |-> "erase"], [type |-> "rotate", degree |-> 180]}

\* what the registry holds for image_id: the picture, the grid, the logs
Snapshot(image_id) ==
    [image |-> IF has_image(image_id) THEN <<get_image(image_id)>> ELSE <<>>,
     grid |-> IF has_grid_params(image_id) THEN <<get_grid_params(image_id)>> ELSE <<>>,
     ops |-> IF image_id \in DOMAIN cell_ops THEN cell_ops[image_id] ELSE EmptyDict]

\* a handler other than the render ran: while the render is between its
\* arrival and its last read, the new registry contents are recorded
Raced ==
    /\ call.pc \in {"idle", "done"} \/ Cardinality(seen) < MaxSeen
    /\ UNCHANGED <<shadow, call, reqs>>
    /\ seen' = IF call.pc \in {"idle", "done"} THEN seen
               ELSE seen \cup {Snapshot(call.image_id)'}

\* the request arrives: get_cell_preview (kind "cell") or export_atlas
\* (kind "atlas") is about to call the Renderer
render_begin(kind, image_id, cell_id) ==
    /\ call.pc = "idle"
    /\ call' = [pc |-> "image", kind |-> kind, image_id |-> image_id,
                cell_id |-> cell_id]
    /\ seen' = {Snapshot(image_id)}
    /\ UNCHANGED <<store_vars, next_id, shadow, reqs>>

\* image = store.get_image(image_id)
render_get_image ==
    /\ call.pc = "image"
    /\ call' = [pc |-> "grid", kind |-> call.kind, image_id |-> call.image_id,
                cell_id |-> call.cell_id,
                image |-> IF has_image(call.image_id)
                          THEN <<get_image(call.image_id)>> ELSE <<>>]
    /\ UNCHANGED <<store_vars, next_id, shadow, seen, reqs>>

\* grid_params = store.get_grid_params(image_id), the "if not image or not
\* grid_params" test, and for the atlas the new output image
render_get_grid ==
    /\ call.pc = "grid"
    /\ LET grid == IF has_grid_params(call.image_id)
                   THEN <<get_grid_params(call.image_id)>> ELSE <<>>
       IN call' =
            IF call.image = <<>> \/ grid = <<>>
            THEN [pc |-> "done", kind |-> call.kind, image_id |-> call.image_id,
                  cell_id |-> call.cell_id,
                  result |-> NoneResult]
            ELSE IF call.kind = "cell"
            THEN [pc |-> "ops", kind |-> call.kind, image_id |-> call.image_id,
                  cell_id |-> call.cell_id, image |-> call.image[1],
                  grid |-> grid[1]]
            ELSE [pc |-> "cells", kind |-> call.kind, image_id |-> call.image_id,
                  cell_id |-> 0, image |-> call.image[1], grid |-> grid[1],
                  output_image |->
                      new_image("RGBA", grid[1].cols * grid[1].cellWidth,
                                grid[1].rows * grid[1].cellHeight, Transparent)]
    /\ UNCHANGED <<store_vars, next_id, shadow, seen, reqs>>

\* render_cell: ops = store.get_cell_ops(image_id, cell_id), the replay and
\* the save
render_get_ops ==
    /\ call.pc = "ops"
    /\ call' = [pc |-> "done", kind |-> call.kind, image_id |-> call.image_id,
                cell_id |-> call.cell_id,
                result |-> render_cell_with(
                    get_cell_ops(cell_ops, call.image_id, call.cell_id),
                    call.image, call.grid, call.cell_id)]
    /\ UNCHANGED <<store_vars, next_id, shadow, seen, reqs>>

\* render_atlas: one pass of the loops, with its read of the cell's log;
\* after the last cell the save
render_atlas_cell ==
    /\ call.pc = "cells"
    /\ call' =
         IF call.cell_id >= call.grid.rows * call.grid.cols
         THEN [pc |-> "done", kind |-> call.kind, image_id |-> call.image_id,
               cell_id |-> call.cell_id,
               result |-> IF save_raises(call.output_image) THEN ErrorResult
                          ELSE PngResult(call.output_image)]
         ELSE [call EXCEPT
                 !.output_image = atlas_step(cell_ops, call.output_image,
                                             call.image, call.grid,
                                             call.image_id, call.cell_id),
                 !.cell_id = call.cell_id + 1]
    /\ UNCHANGED <<store_vars, next_id, shadow, seen, reqs>>

\* the response is sent
render_return ==
    /\ call.pc = "done"
    /\ call' = NoCall
    /\ seen' = {}
    /\ UNCHANGED <<store_vars, next_id, shadow, reqs>>

InitConc ==
    /\ image_paths = dict_set(EmptyDict, 1, image_path(1))
    /\ files = dict_set(EmptyDict, image_path(1), stored_png(ConcImage))
    /\ grid_params = dict_set(EmptyDict, 1,
                              slice_grid(ConcImage, [rows |-> 1, cols |-> 2]))
    /\ cell_ops = dict_set(EmptyDict, 1, EmptyDict)
    /\ next_id = 2
    /\ shadow = NoStacks
    /\ call = NoCall
    /\ seen = {}
    /\ reqs = NoReqs

NextConc ==
    \/ \E cell_id \in CellIds : render_begin("cell", 1, cell_id)
    \/ render_begin("atlas", 1, 0)
    \/ render_get_image
    \/ render_get_grid
    \/ render_get_ops
    \/ render_atlas_cell
    \/ render_return
    \/ \E data \in ConcSliceRequests : slice_image(1, data) /\ Raced
    \/ \E cell_id \in CellIds, data \in ConcOpRequests :
          /\ total_ops(cell_ops, DOMAIN cell_ops) < MaxOps
          /\ apply_cell_operation(1, cell_id, data)
          /\ Raced
    \/ \E cell_id \in CellIds : undo_cell_operation(1, cell_id) /\ Raced
    \/ delete_image(1) /\ Raced

SpecConc == InitConc /\ [][NextConc]_vars

(***************************************************************************)
(* SpecRace: operation, slice and delete requests on id 1 handled by the   *)
(* server's threads at the same time.  A thread runs its handler one       *)
(* statement of ImageStore at a time; reqs[t] holds the handler's position *)
(* and local variables, and once it has answered, the status.              *)
(***************************************************************************)
Idle == [pc |-> "idle"]

\* the handler has returned (or raised): the response is ready
Done(kind, status) == [pc |-> "done", kind |-> kind, status |-> status]

\* the threads that are inside a handler of the given kind
Handling(kind) ==
    {t \in Threads : reqs[t].pc \notin {"idle", "done"} /\ reqs[t].kind = kind}

\* the model's bound on operation requests: MaxOps are acknowledged or in
\* flight
RaceBound ==
    total_ops(shadow, DOMAIN shadow) + Cardinality(Handling("op")) < MaxOps

\* apply_cell_operation up to its call of store.add_cell_op
apply_begin(t, image_id, cell_id, data) ==
    /\ reqs[t].pc = "idle"
    /\ reqs' = [reqs EXCEPT ![t] =
                  IF parse_op(data).type = "invalid" THEN Done("op", 400)
                  ELSE [pc |-> "check", kind |-> "op", image_id |-> image_id,
                        cell_id |-> cell_id, op |-> parse_op(data)]]
    /\ UNCHANGED <<store_vars, next_id, shadow, call, seen>>

\* add_cell_op: "if cell_id not in self.cell_ops[image_id]"
add_cell_op_check(t) ==
    /\ reqs[t].pc = "check"
    /\ reqs' = [reqs EXCEPT ![t] =
                  IF reqs[t].image_id \notin DOMAIN cell_ops THEN Done("op", 500)
                  ELSE IF reqs[t].cell_id \notin DOMAIN cell_ops[reqs[t].image_id]
                  THEN [@ EXCEPT !.pc = "create"]
                  ELSE [@ EXCEPT !.pc = "append"]]
    /\ UNCHANGED <<store_vars, next_id, shadow, call, seen>>

\* add_cell_op: "self.cell_ops[image_id][cell_id] = []"
add_cell_op_create(t) ==
    /\ reqs[t].pc = "create"
    /\ LET r == reqs[t]
       IN IF r.image_id \notin DOMAIN cell_ops
          THEN /\ reqs' = [reqs EXCEPT ![t] = Done("op", 500)]
               /\ UNCHANGED cell_ops
          ELSE /\ reqs' = [reqs EXCEPT ![t] = [@ EXCEPT !.pc = "append"]]
               /\ cell_ops' = dict_set(cell_ops, r.image_id,
                                       dict_set(cell_ops[r.image_id], r.cell_id, <<>>))
    /\ UNCHANGED <<image_paths, files, grid_params, next_id, shadow, call, seen>>

\* add_cell_op: "self.cell_ops[image_id][cell_id].append(op)", and the
\* handler's jsonify({'ok': True})
add_cell_op_append(t) ==
    /\ reqs[t].pc = "append"
    /\ LET r == reqs[t]
       IN IF \/ r.image_id \notin DOMAIN cell_ops
             \/ r.cell_id \notin DOMAIN cell_ops[r.image_id]
          THEN /\ reqs' = [reqs EXCEPT ![t] = Done("op", 500)]
               /\ UNCHANGED <<cell_ops, shadow>>
          ELSE /\ reqs' = [reqs EXCEPT ![t] = Done("op", 200)]
               /\ cell_ops' = dict_set(cell_ops, r.image_id,
                                  dict_set(cell_ops[r.image_id], r.cell_id,
                                      Append(cell_ops[r.image_id][r.cell_id], r.op)))
               /\ shadow' = [shadow EXCEPT ![r.image_id][r.cell_id] = Append(@, r.op)]
    /\ UNCHANGED <<image_paths, files, grid_params, next_id, call, seen>>

\* slice_image is entered
slice_begin(t, image_id, data) ==
    /\ reqs[t].pc = "idle"
    /\ reqs' = [reqs EXCEPT ![t] =
                  [pc |-> "get_image", kind |-> "slice", image_id |-> image_id,
                   data |-> data]]
    /\ UNCHANGED <<store_vars, next_id, shadow, call, seen>>

\* slice_image: "image = store.get_image(image_id)" and the computation of
\* the grid from the image and request.json
slice_get_image(t) ==
    /\ reqs[t].pc = "get_image"
    /\ reqs' = [reqs EXCEPT ![t] =
                  IF slice_status(reqs[t].image_id, reqs[t].data) # 200
                  THEN Done("slice", slice_status(reqs[t].image_id, reqs[t].data))
                  ELSE [pc |-> "set_grid", kind |-> "slice",
                        image_id |-> reqs[t].image_id,
                        grid |-> slice_grid(get_image(reqs[t].image_id),
                                            reqs[t].data)]]
    /\ UNCHANGED <<store_vars, next_id, shadow, call, seen>>

\* slice_image: "store.set_grid_params(image_id, grid_params)" and the
\* response
slice_set_grid(t) ==
    /\ reqs[t].pc = "set_grid"
    /\ grid_params' = dict_set(grid_params, reqs[t].image_id, reqs[t].grid)
    /\ reqs' = [reqs EXCEPT ![t] = Done("slice", 200)]
    /\ UNCHANGED <<image_paths, files, cell_ops, next_id, shadow, call, seen>>

\* the delete route is entered
delete_begin(t, image_id) ==
    /\ reqs[t].pc = "idle"
    /\ reqs' = [reqs EXCEPT ![t] =
                  [pc |-> "remove", kind |-> "delete", image_id |-> image_id]]
    /\ UNCHANGED <<store_vars, next_id, shadow, call, seen>>

\* ImageStore.delete_image: the os.remove of the file, where it exists
delete_remove(t) ==
    /\ reqs[t].pc = "remove"
    /\ files' = IF has_image(reqs[t].image_id)
                THEN dict_pop(files, image_paths[reqs[t].image_id]) ELSE files
    /\ reqs' = [reqs EXCEPT ![t] = [@ EXCEPT !.pc = "pop_paths"]]
    /\ UNCHANGED <<image_paths, grid_params, cell_ops, next_id, shadow, call, seen>>

\* ImageStore.delete_image: "self.image_paths.pop(image_id, None)"
delete_pop_paths(t) ==
    /\ reqs[t].pc = "pop_paths"
    /\ image_paths' = dict_pop(image_paths, reqs[t].image_id)
    /\ reqs' = [reqs EXCEPT ![t] = [@ EXCEPT !.pc = "pop_grid"]]
    /\ UNCHANGED <<files, grid_params, cell_ops, next_id, shadow, call, seen>>

\* ImageStore.delete_image: "self.grid_params.pop(image_id, None)"
delete_pop_grid(t) ==
    /\ reqs[t].pc = "pop_grid"
    /\ grid_params' = dict_pop(grid_params, reqs[t].image_id)
    /\ reqs' = [reqs EXCEPT ![t] = [@ EXCEPT !.pc = "pop_ops"]]
    /\ UNCHANGED <<image_paths, files, cell_ops, next_id, shadow, call, seen>>

\* ImageStore.delete_image: "self.cell_ops.pop(image_id, None)", and the
\* route's jsonify({'ok': True})
delete_pop_ops(t) ==
    /\ reqs[t].pc = "pop_ops"
    /\ cell_ops' = dict_pop(cell_ops, reqs[t].image_id)
    /\ Dropped(reqs[t].image_id)
    /\ reqs' = [reqs EXCEPT ![t] = Done("delete", 200)]
    /\ UNCHANGED <<image_paths, files, grid_params, next_id, call, seen>>

\* the response is sent and the thread takes the next request
respond(t) ==
    /\ reqs[t].pc = "done"
    /\ reqs' = [reqs EXCEPT ![t] = Idle]
    /\ UNCHANGED <<store_vars, next_id, shadow, call, seen>>

\* the state after upload(ConcImage) on a new store
InitRace ==
    /\ image_paths = dict_set(EmptyDict, 1, image_path(1))
    /\ files = dict_set(EmptyDict, image_path(1), stored_png(ConcImage))
    /\ grid_params = EmptyDict
    /\ cell_ops = dict_set(EmptyDict, 1, EmptyDict)
    /\ next_id = 2
    /\ shadow = NoStacks
    /\ call = NoCall
    /\ seen = {}
    /\ reqs = NoReqs

NextRace ==
    \E t \in Threads :
        \/ \E cell_id \in CellIds, data \in GridOpRequests :
              RaceBound /\ apply_begin(t, 1, cell_id, data)
        \/ add_cell_op_check(t)
        \/ add_cell_op_create(t)
        \/ add_cell_op_append(t)
        \/ \E data \in ConcSliceRequests : slice_begin(t, 1, data)
        \/ slice_get_image(t)
        \/ slice_set_grid(t)
        \/ delete_begin(t, 1)
        \/ delete_remove(t)
        \/ delete_pop_paths(t)
        \/ delete_pop_grid(t)
        \/ delete_pop_ops(t)
        \/ respond(t)

SpecRace == InitRace /\ [][NextRace]_vars

(***************************************************************************)
(* SpecGrid: one stored picture of any of the sizes below and the slice    *)
(* requests a client can send, the values below zero included; no render   *)
(* is made of the stored grids.                                            *)
(***************************************************************************)
GridImages == {source_image("RGBA", w, h) : w \in 1 .. 4, h \in 1 .. 3}

\* request.json of the slice requests: GridRequests and pairs with a value
\* or both values below zero
SignedGridRequests ==
    GridRequests \cup {[rows |-> 1, cols |-> -3], [rows |-> -1, cols |-> -2],
                       [cellWidth |-> -1, cellHeight |-> 1],
                       [cellWidth |-> -2, cellHeight |-> -1]}

InitGrid ==
    \E image \in GridImages :
        /\ image_paths = dict_set(EmptyDict, 1, image_path(1))
        /\ files = dict_set(EmptyDict, image_path(1), stored_png(image))
        /\ grid_params = EmptyDict
        /\ cell_ops = dict_set(EmptyDict, 1, EmptyDict)
        /\ next_id = 2
        /\ shadow = NoStacks
        /\ call = NoCall
        /\ seen = {}
        /\ reqs = NoReqs

NextGrid ==
    \E data \in SignedGridRequests :
        slice_image(1, data) /\ UNCHANGED <<shadow, call, seen, reqs>>

SpecGrid == InitGrid /\ [][NextGrid]_vars

(***************************************************************************)
(* Properties.                                                             *)
(***************************************************************************)
\* the operation requests apply_cell_operation accepts
ValidOps == {parse_op(data) : data \in OpRequests} \ {[type |-> "invalid"]}

\* C1: in every reachable state, for every id of the registry, every cell
\* and every operation, add_cell_op followed at once by undo_cell_op returns
\* True and leaves the cell's log as it was before the add.  (On an id that
\* is not in the registry add_cell_op raises KeyError: no add precedes the
\* undo there.)
C1_UndoAfterAdd ==
    \A image_id \in DOMAIN cell_ops, cell_id \in CellIds, op \in ValidOps :
        LET added == add_cell_op(cell_ops, image_id, cell_id, op)
        IN /\ can_undo(added, image_id, cell_id)
           /\ get_cell_ops(undo_cell_op(added, image_id, cell_id), image_id, cell_id)
                = get_cell_ops(cell_ops, image_id, cell_id)

\* C1 witness: a stored cell with a non-empty log, on which an add and an
\* undo give back that log.
C1_Witness ==
    \E image_id \in DOMAIN cell_ops, cell_id \in CellIds :
        /\ Len(get_cell_ops(cell_ops, image_id, cell_id)) >= 1
        /\ undo_cell_op(add_cell_op(cell_ops, image_id, cell_id, [type |-> "erase"]),
                        image_id, cell_id) = cell_ops

\* C2: for every id and cell, get_cell_ops returns the stack of the
\* acknowledged operations: each pushed when appended, popped by each
\* successful undo, in append order.
C2_LogIsStack ==
    \A image_id \in Ids, cell_id \in CellIds :
        get_cell_ops(cell_ops, image_id, cell_id) = shadow[image_id][cell_id]

\* C2 witness: a log of two different operations, in the order appended.
C2_Witness ==
    \E image_id \in DOMAIN cell_ops, cell_id \in CellIds :
        /\ get_cell_ops(cell_ops, image_id, cell_id)
             = <<[type |-> "rotate", degree |-> 90], [type |-> "erase"]>>
        /\ shadow[image_id][cell_id] = get_cell_ops(cell_ops, image_id, cell_id)

\* C3: wherever the addressed cell has nothing to remove (an empty log, no
\* log, an unknown id), undo answers 200 with ok false and no step of the
\* undo handler changes the store.
C3_UndoNothing ==
    \A image_id \in Ids, cell_id \in CellIds :
        get_cell_ops(cell_ops, image_id, cell_id) = <<>> =>
            /\ undo_cell_operation_response(image_id, cell_id) = Response(200, [ok |-> FALSE])
            /\ ~ENABLED (undo_cell_operation(image_id, cell_id)
                         /\ store_vars' # store_vars)

\* C3 witness: the three cases at once: a stored cell whose log was
\* emptied by undo, a stored cell that never had a log, an unknown id.
C3_Witness ==
    /\ \E image_id \in DOMAIN cell_ops, cell_id \in CellIds :
          /\ cell_id \in DOMAIN cell_ops[image_id]
          /\ cell_ops[image_id][cell_id] = <<>>
          /\ \E other \in CellIds : other \notin DOMAIN cell_ops[image_id]
    /\ \E image_id \in Ids : image_id \notin DOMAIN cell_ops

(***************************************************************************)
(* Properties of the renderer.                                             *)
(***************************************************************************)
\* the ids render_cell renders: an image and a grid are stored
RenderedIds == {image_id \in DOMAIN grid_params : has_image(image_id)}

\* a GridSpec of the data model: every field is at least 1
WellFormed(grid) ==
    grid.rows >= 1 /\ grid.cols >= 1 /\ grid.cellWidth >= 1 /\ grid.cellHeight >= 1

\* the cell indices of a grid
GridCells(grid) == 0 .. (grid.rows * grid.cols - 1)

\* the pixel at (x, y) of a decoded PNG
PixelAt(png, x, y) == png.rows[y + 1][x + 1]

Log(image_id, cell_id) == get_cell_ops(cell_ops, image_id, cell_id)
Rot(d) == [type |-> "rotate", degree |-> d]
ButLast(l, n) == SubSeq(l, 1, Len(l) - n)

\* the operations of a log applied one by one, the last one last
RECURSIVE C4_Applied(_, _, _, _)
C4_Applied(base, ops, cell_width, cell_height) ==
    IF ops = <<>> THEN base
    ELSE apply_op(C4_Applied(base, ButLast(ops, 1), cell_width, cell_height),
                  ops[Len(ops)], cell_width, cell_height)

\* C4: for every stored grid of positive cell size and every cell index,
\* render_cell returns the PNG of the crop at (col*cellWidth, row*cellHeight),
\* col = cell mod cols, row = cell div cols, of extent cellWidth x cellHeight,
\* with every operation of the cell's log applied once, in append order.
C4_RenderIsReplay ==
    \A image_id \in RenderedIds, cell_id \in CellIds :
        LET grid == get_grid_params(image_id)
            x == (cell_id % grid.cols) * grid.cellWidth
            y == (cell_id \div grid.cols) * grid.cellHeight
        IN WellFormed(grid) =>
             render_cell(image_id, cell_id)
               = PngResult(C4_Applied(
                     crop(get_image(image_id), x, y,
                          x + grid.cellWidth, y + grid.cellHeight),
                     Log(image_id, cell_id), grid.cellWidth, grid.cellHeight))

\* C4 witness: a rendered cell in the second column whose log holds three
\* operations.
C4_Witness ==
    \E image_id \in RenderedIds :
        /\ WellFormed(get_grid_params(image_id))
        /\ get_grid_params(image_id).cols >= 2
        /\ Len(Log(image_id, 1)) = 3
        /\ render_cell(image_id, 1).kind = "png"

\* C5: every cell of a well-formed grid whose log is empty or absent
\* renders to cellWidth x cellHeight pixels, each equal in all four
\* channels to the stored RGBA image's pixel at the cell's rectangle.
C5_EmptyLogIsCrop ==
    \A image_id \in RenderedIds :
        LET grid == get_grid_params(image_id)
            image == get_image(image_id)
        IN WellFormed(grid) =>
             \A cell_id \in GridCells(grid) :
                Log(image_id, cell_id) = <<>> =>
                    LET r == render_cell(image_id, cell_id)
                        x0 == (cell_id % grid.cols) * grid.cellWidth
                        y0 == (cell_id \div grid.cols) * grid.cellHeight
                    IN /\ r.kind = "png"
                       /\ r.png.w = grid.cellWidth /\ r.png.h = grid.cellHeight
                       /\ \A p \in Coords(grid.cellWidth, grid.cellHeight) :
                             PixelAt(r.png, p[1], p[2])
                               = image.px[<<x0 + p[1], y0 + p[2]>>]

\* C5 witness: a cell off the origin whose log was emptied by undo, and
\* whose crop holds a pixel of alpha 128.
C5_Witness ==
    \E image_id \in RenderedIds :
        /\ WellFormed(get_grid_params(image_id))
        /\ 1 \in GridCells(get_grid_params(image_id))
        /\ 1 \in DOMAIN cell_ops[image_id]
        /\ cell_ops[image_id][1] = <<>>
        /\ render_cell(image_id, 1).kind = "png"
        /\ \E p \in Coords(get_grid_params(image_id).cellWidth,
                           get_grid_params(image_id).cellHeight) :
              PixelAt(render_cell(image_id, 1).png, p[1], p[2])[4] = 128

\* C6: in every cell of a well-formed grid whose log holds an erase (every
\* later entry is then an erase or a rotate), every rendered pixel is
\* (0, 0, 0, 0).
C6_EraseAbsorbs ==
    \A image_id \in RenderedIds, cell_id \in CellIds :
        LET grid == get_grid_params(image_id)
            r == render_cell(image_id, cell_id)
        IN (/\ WellFormed(grid)
            /\ \E i \in 1 .. Len(Log(image_id, cell_id)) :
                  Log(image_id, cell_id)[i].type = "erase") =>
             /\ r.kind = "png"
             /\ \A p \in Coords(grid.cellWidth, grid.cellHeight) :
                   PixelAt(r.png, p[1], p[2]) = <<0, 0, 0, 0>>

\* C6 witness: a non-square cell of an opaque picture, rotated, erased and
\* rotated again.
C6_Witness ==
    \E image_id \in RenderedIds, cell_id \in CellIds :
        /\ WellFormed(get_grid_params(image_id))
        /\ get_grid_params(image_id).cellWidth # get_grid_params(image_id).cellHeight
        /\ Log(image_id, cell_id) = <<Rot(90), [type |-> "erase"], Rot(90)>>
        /\ render_cell(image_id, cell_id).kind = "png"

\* C7: in every cell of a well-formed grid whose log ends with two
\* Rotate{180}, the render equals the render of the log without them.
C7_Rotate180Twice ==
    \A image_id \in RenderedIds, cell_id \in CellIds :
        LET grid == get_grid_params(image_id)
            ops == Log(image_id, cell_id)
        IN (/\ WellFormed(grid)
            /\ Len(ops) >= 2
            /\ ops[Len(ops)] = Rot(180) /\ ops[Len(ops) - 1] = Rot(180)) =>
             /\ render_cell(image_id, cell_id).kind = "png"
             /\ render_cell(image_id, cell_id)
                  = render_cell_with(ButLast(ops, 2), get_image(image_id), grid, cell_id)

\* C7 witness: a non-square cell with a prior rotation, then two
\* Rotate{180}.
C7_Witness ==
    \E image_id \in RenderedIds, cell_id \in CellIds :
        /\ WellFormed(get_grid_params(image_id))
        /\ cell_id \in GridCells(get_grid_params(image_id))
        /\ get_grid_params(image_id).cellWidth # get_grid_params(image_id).cellHeight
        /\ Log(image_id, cell_id) = <<Rot(90), Rot(180), Rot(180)>>
        /\ render_cell(image_id, cell_id).kind = "png"

\* the degrees of a log of rotations, summed
RECURSIVE C8_Sum(_)
C8_Sum(ops) == IF ops = <<>> THEN 0 ELSE ops[1].degree + C8_Sum(Tail(ops))

C8_AllRotations(ops) == \A i \in 1 .. Len(ops) : ops[i].type = "rotate"

\* the log ops with its last two rotations replaced by one of their sum
\* mod 360 (by none where the sum is 0)
C8_Merged(ops) ==
    LET d == (ops[Len(ops) - 1].degree + ops[Len(ops)].degree) % 360
    IN IF d = 0 THEN ButLast(ops, 2) ELSE Append(ButLast(ops, 2), Rot(d))

\* rotations compose additively mod 360 in cell cell_id of image_id
C8_AdditiveIn(image_id, cell_id) ==
    LET grid == get_grid_params(image_id)
        image == get_image(image_id)
        ops == Log(image_id, cell_id)
    IN /\ (/\ Len(ops) >= 2
           /\ ops[Len(ops)].type = "rotate" /\ ops[Len(ops) - 1].type = "rotate") =>
             render_cell(image_id, cell_id)
               = render_cell_with(C8_Merged(ops), image, grid, cell_id)
       /\ (C8_AllRotations(ops) /\ C8_Sum(ops) % 360 = 0) =>
             render_cell(image_id, cell_id)
               = render_cell_with(<<>>, image, grid, cell_id)

\* C8 as claimed: in every cell of a well-formed grid, square or not, two
\* rotations in a row render as one rotation by their sum mod 360, and a
\* log of rotations summing to a multiple of 360 renders as no rotation.
C8_AdditiveEveryCell ==
    \A image_id \in RenderedIds, cell_id \in CellIds :
        WellFormed(get_grid_params(image_id)) => C8_AdditiveIn(image_id, cell_id)

\* C8 amended: the same in every square cell (cellWidth = cellHeight).
C8_AdditiveSquare ==
    \A image_id \in RenderedIds, cell_id \in CellIds :
        (/\ WellFormed(get_grid_params(image_id))
         /\ get_grid_params(image_id).cellWidth = get_grid_params(image_id).cellHeight)
            => C8_AdditiveIn(image_id, cell_id)

\* C8 witness: a square cell of the grid rotated by 90, 180 and 90.
C8_Witness ==
    \E image_id \in RenderedIds, cell_id \in CellIds :
        /\ WellFormed(get_grid_params(image_id))
        /\ cell_id \in GridCells(get_grid_params(image_id))
        /\ get_grid_params(image_id).cellWidth = get_grid_params(image_id).cellHeight
        /\ get_grid_params(image_id).cellWidth >= 2
        /\ Log(image_id, cell_id) = <<Rot(90), Rot(180), Rot(90)>>
        /\ render_cell(image_id, cell_id).kind = "png"

\* where Rotate{d} moves the pixel at (x, y) of an n x n cell, clockwise
C9_Target(d, n, x, y) ==
    IF d = 90 THEN <<n - 1 - y, x>>
    ELSE IF d = 180 THEN <<n - 1 - x, n - 1 - y>>
    ELSE <<y, n - 1 - x>>

\* C9: in every square n x n cell whose log ends with Rotate{d}, the pixel
\* the render without that rotation has at (x, y) is at (n-1-y, x) for
\* d = 90, at (n-1-x, n-1-y) for d = 180 and at (y, n-1-x) for d = 270.
C9_Clockwise ==
    \A image_id \in RenderedIds, cell_id \in CellIds :
        LET grid == get_grid_params(image_id)
            ops == Log(image_id, cell_id)
            n == grid.cellWidth
            after == render_cell(image_id, cell_id)
            before == render_cell_with(ButLast(ops, 1), get_image(image_id),
                                       grid, cell_id)
        IN (/\ WellFormed(grid) /\ grid.cellWidth = grid.cellHeight
            /\ ops # <<>> /\ ops[Len(ops)].type = "rotate") =>
             /\ after.kind = "png" /\ before.kind = "png"
             /\ \A p \in Coords(n, n) :
                   LET t == C9_Target(ops[Len(ops)].degree, n, p[1], p[2])
                   IN PixelAt(after.png, t[1], t[2]) = PixelAt(before.png, p[1], p[2])

\* C9 witness: a 3 x 3 cell of the picture with a single Rotate{90}.
C9_Witness ==
    \E image_id \in RenderedIds :
        /\ get_grid_params(image_id).cellWidth = 3
        /\ get_grid_params(image_id).cellHeight = 3
        /\ Log(image_id, 0) = <<Rot(90)>>
        /\ render_cell(image_id, 0).kind = "png"

\* C10: every render of a cell of a well-formed grid is a picture of
\* exactly cellWidth x cellHeight pixels, whatever the log; after a
\* rotation each of its pixels is a pixel of the picture before the
\* rotation or (0, 0, 0, 0).
C10_FrameKept ==
    \A image_id \in RenderedIds, cell_id \in CellIds :
        LET grid == get_grid_params(image_id)
            ops == Log(image_id, cell_id)
            r == render_cell(image_id, cell_id)
            before == render_cell_with(ButLast(ops, 1), get_image(image_id),
                                       grid, cell_id)
        IN WellFormed(grid) =>
             /\ r.kind = "png"
             /\ r.png.w = grid.cellWidth /\ r.png.h = grid.cellHeight
             /\ Len(r.png.rows) = grid.cellHeight
             /\ \A y \in 1 .. grid.cellHeight : Len(r.png.rows[y]) = grid.cellWidth
             /\ (ops # <<>> /\ ops[Len(ops)].type = "rotate") =>
                   \A p \in Coords(grid.cellWidth, grid.cellHeight) :
                      \/ PixelAt(r.png, p[1], p[2]) = <<0, 0, 0, 0>>
                      \/ \E q \in Coords(grid.cellWidth, grid.cellHeight) :
                            PixelAt(r.png, p[1], p[2]) = PixelAt(before.png, q[1], q[2])

\* C10 witness: a 3 x 2 cell after Rotate{90}: still 3 x 2, with a
\* transparent pixel where the turned content leaves the frame bare.
C10_Witness ==
    \E image_id \in RenderedIds :
        /\ get_grid_params(image_id).cellWidth = 3
        /\ get_grid_params(image_id).cellHeight = 2
        /\ Log(image_id, 0) = <<Rot(90)>>
        /\ render_cell(image_id, 0).kind = "png"
        /\ render_cell(image_id, 0).png.w = 3
        /\ \E p \in Coords(3, 2) :
              PixelAt(render_cell(image_id, 0).png, p[1], p[2]) = <<0, 0, 0, 0>>

\* C11: for every stored picture with a well-formed grid, whatever the
\* logs, render_atlas returns a picture of (cols*cellWidth) x
\* (rows*cellHeight) pixels whose rectangle at (col*cellWidth,
\* row*cellHeight) equals render_cell of that cell, for every cell index
\* 0 .. rows*cols-1; a cell with an empty log shows the stored picture.
C11_AtlasIsCells ==
    \A image_id \in RenderedIds :
        LET grid == get_grid_params(image_id)
            image == get_image(image_id)
            atlas == render_atlas(image_id)
        IN WellFormed(grid) =>
             /\ atlas.kind = "png"
             /\ atlas.png.w = grid.cols * grid.cellWidth
             /\ atlas.png.h = grid.rows * grid.cellHeight
             /\ Len(atlas.png.rows) = atlas.png.h
             /\ \A y \in 1 .. atlas.png.h : Len(atlas.png.rows[y]) = atlas.png.w
             /\ \A cell_id \in GridCells(grid) :
                   LET x0 == (cell_id % grid.cols) * grid.cellWidth
                       y0 == (cell_id \div grid.cols) * grid.cellHeight
                       cell == render_cell(image_id, cell_id)
                   IN /\ cell.kind = "png"
                      /\ \A p \in Coords(grid.cellWidth, grid.cellHeight) :
                            /\ PixelAt(atlas.png, x0 + p[1], y0 + p[2])
                                 = PixelAt(cell.png, p[1], p[2])
                            /\ Log(image_id, cell_id) = <<>> =>
                                 PixelAt(atlas.png, x0 + p[1], y0 + p[2])
                                   = image.px[<<x0 + p[1], y0 + p[2]>>]

\* C11 witness: an atlas of two rows and two columns, its first cell
\* erased, its second rotated, the others untouched.
C11_Witness ==
    \E image_id \in RenderedIds :
        /\ get_grid_params(image_id).rows = 2
        /\ get_grid_params(image_id).cols = 2
        /\ WellFormed(get_grid_params(image_id))
        /\ Log(image_id, 0) = <<[type |-> "erase"]>>
        /\ Log(image_id, 1) = <<Rot(90)>>
        /\ render_atlas(image_id).kind = "png"
        /\ PixelAt(render_atlas(image_id).png, 0, 0) = <<0, 0, 0, 0>>

\* C12: for every id that is not stored or has no grid, and every cell
\* index, render_cell and render_atlas return None (the routes answer 404),
\* whatever logs the id has.
C12_NotFoundWithoutGrid ==
    \A image_id \in Ids :
        (~has_image(image_id) \/ ~has_grid_params(image_id)) =>
            /\ render_atlas(image_id) = NoneResult
            /\ export_atlas_response(image_id).status = 404
            /\ \A cell_id \in CellIds :
                  /\ render_cell(image_id, cell_id) = NoneResult
                  /\ get_cell_preview_response(image_id, cell_id).status = 404

\* C12 witness: a stored id that has a log and no grid, and an id that is
\* not stored.
C12_Witness ==
    /\ \E image_id \in Ids, cell_id \in CellIds :
          /\ has_image(image_id) /\ ~has_grid_params(image_id)
          /\ Log(image_id, cell_id) # <<>>
    /\ \E image_id \in Ids : ~has_image(image_id)

\* C13 as claimed: for every stored picture with a well-formed grid, the
\* cell preview of every index outside 0 .. rows*cols-1 is answered 404.
C13_OutOfRangeNotFound ==
    \A image_id \in RenderedIds, cell_id \in CellIds :
        (/\ WellFormed(get_grid_params(image_id))
         /\ cell_id \notin GridCells(get_grid_params(image_id))) =>
            get_cell_preview_response(image_id, cell_id).status = 404

\* q is the floor of n / d, d not 0
C14_IsFloor(q, n, d) ==
    IF d > 0 THEN d * q <= n /\ n < d * (q + 1)
    ELSE d * q >= n /\ n > d * (q + 1)

\* C14: every step of slice_image that is answered 200 stores, for a
\* request with rows and cols, these two unchanged with cellWidth the
\* floor of width / cols and cellHeight the floor of height / rows; for
\* a request with cellWidth and cellHeight (and not both rows and cols),
\* these two unchanged with cols the floor of width / cellWidth and rows
\* the floor of height / cellHeight.
C14_FloorDivision ==
    [][\A image_id \in Ids, data \in GridRequests :
          (slice_image(image_id, data) /\ slice_status(image_id, data) = 200) =>
              LET g == grid_params'[image_id]
                  image == get_image(image_id)
              IN IF has_key(data, "rows") /\ has_key(data, "cols")
                 THEN /\ g.rows = data.rows /\ g.cols = data.cols
                      /\ C14_IsFloor(g.cellWidth, image.w, data.cols)
                      /\ C14_IsFloor(g.cellHeight, image.h, data.rows)
                 ELSE /\ g.cellWidth = data.cellWidth
                      /\ g.cellHeight = data.cellHeight
                      /\ C14_IsFloor(g.cols, image.w, data.cellWidth)
                      /\ C14_IsFloor(g.rows, image.h, data.cellHeight)]_vars

\* C14 witness: a stored grid whose divisions left a remainder in both
\* directions.
C14_Witness ==
    \E image_id \in RenderedIds :
        LET g == get_grid_params(image_id)
        IN /\ WellFormed(g)
           /\ g.cols * g.cellWidth < get_image(image_id).w
           /\ g.rows * g.cellHeight < get_image(image_id).h

\* every request of the set that is answered 200 returns a grid with
\* cellWidth*cols <= width and cellHeight*rows <= height and a cell list
\* of exactly rows*cols entries, the k-th with cellId k-1, row = cellId div
\* cols, col = cellId mod cols, x = col*cellWidth, y = row*cellHeight
C15_Exact(requests) ==
    \A image_id \in Ids, data \in requests :
        slice_status(image_id, data) = 200 =>
            LET body == slice_response(image_id, data).body
                image == get_image(image_id)
            IN /\ body.cellWidth * body.cols <= image.w
               /\ body.cellHeight * body.rows <= image.h
               /\ Len(body.cells) = body.rows * body.cols
               /\ \A k \in 1 .. Len(body.cells) :
                     LET cell == body.cells[k]
                     IN /\ cell.cellId = k - 1
                        /\ cell.row = cell.cellId \div body.cols
                        /\ cell.col = cell.cellId % body.cols
                        /\ cell.x = cell.col * body.cellWidth
                        /\ cell.y = cell.row * body.cellHeight

\* C15 as claimed: for every slice request that is accepted, the bounds
\* cellWidth*cols <= width and cellHeight*rows <= height hold and the cell
\* list has exactly rows*cols entries, numbered 0 .. rows*cols-1 in
\* row-major order with their row, col, x and y.
C15_CellListExact == C15_Exact(AnyGridRequests)

\* the same over the requests whose values are positive or zero: it holds
C15_CellListExactNat == C15_Exact(GridRequests)

\* the request names neither pair, or the pair slice_image divides by
\* holds a zero
C16_Invalid(data) ==
    \/ ~(has_key(data, "rows") /\ has_key(data, "cols"))
       /\ ~(has_key(data, "cellWidth") /\ has_key(data, "cellHeight"))
    \/ has_key(data, "rows") /\ has_key(data, "cols")
       /\ (data.rows = 0 \/ data.cols = 0)
    \/ ~(has_key(data, "rows") /\ has_key(data, "cols"))
       /\ has_key(data, "cellWidth") /\ has_key(data, "cellHeight")
       /\ (data.cellWidth = 0 \/ data.cellHeight = 0)

\* C16 as claimed: on a stored picture, a slice request that names
\* neither pair or whose divisor is zero is answered with the invalid
\* parameters error (400), and no step of it changes the stored grid.
C16_InvalidGridRejected ==
    \A image_id \in Ids, data \in GridRequests :
        (has_image(image_id) /\ C16_Invalid(data)) =>
            /\ slice_response(image_id, data).status = 400
            /\ ~ENABLED (slice_image(image_id, data) /\ grid_params' # grid_params)

\* the part of C16 that holds: such a request is not answered 200 and no
\* step of it changes the store
C16_InvalidGridKeepsStore ==
    \A image_id \in Ids, data \in GridRequests :
        (has_image(image_id) /\ C16_Invalid(data)) =>
            /\ slice_response(image_id, data).status \in {400, 500}
            /\ ~ENABLED (slice_image(image_id, data) /\ store_vars' # store_vars)

\* C17 as claimed: in every reachable state every stored grid has rows,
\* cols, cellWidth and cellHeight all >= 1.
C17_GridFieldsPositive ==
    \A image_id \in DOMAIN grid_params : WellFormed(grid_params[image_id])

\* C18: every step of slice_image that is answered 200 stores the grid it
\* answers with as the grid of its id, and leaves every log, every stored
\* picture and the grid of every other id as they were.
C18_SliceKeepsLogs ==
    [][\A image_id \in Ids, data \in SliceRequests :
          (slice_image(image_id, data) /\ slice_status(image_id, data) = 200) =>
              LET body == slice_response(image_id, data).body
              IN /\ image_id \in DOMAIN grid_params'
                 /\ grid_params'[image_id]
                      = [rows |-> body.rows, cols |-> body.cols,
                         cellWidth |-> body.cellWidth,
                         cellHeight |-> body.cellHeight]
                 /\ cell_ops' = cell_ops
                 /\ image_paths' = image_paths
                 /\ files' = files
                 /\ \A other \in Ids \ {image_id} :
                       /\ other \in DOMAIN grid_params' <=> other \in DOMAIN grid_params
                       /\ other \in DOMAIN grid_params =>
                            grid_params'[other] = grid_params[other]]_vars

\* C18 witness: two stored pictures with different grids, the first with
\* logs on both of its cells.
C18_Witness ==
    /\ has_image(1) /\ has_image(2)
    /\ has_grid_params(1) /\ has_grid_params(2)
    /\ get_grid_params(1) # get_grid_params(2)
    /\ Log(1, 0) # <<>> /\ Log(1, 1) # <<>>

\* C19: every step of delete_image on a stored id leaves that id without
\* stored picture, grid and logs: get_image reports none, the preview is
\* answered 404, get_grid_params is absent, get_cell_ops is empty and undo
\* answers false for every cell, render_cell and render_atlas return None;
\* every other id keeps its picture, grid and logs.
C19_DeleteRemovesAll ==
    [][\A image_id \in Ids :
          (delete_image(image_id) /\ has_image(image_id)) =>
              /\ (~has_image(image_id))'
              /\ image_id \notin DOMAIN image_paths'
              /\ image_path(image_id) \notin DOMAIN files'
              /\ (get_image_preview_response(image_id).status = 404)'
              /\ (~has_grid_params(image_id))'
              /\ image_id \notin DOMAIN cell_ops'
              /\ (render_atlas(image_id) = NoneResult)'
              /\ \A cell_id \in CellIds :
                    /\ get_cell_ops(cell_ops', image_id, cell_id) = <<>>
                    /\ (undo_cell_operation_response(image_id, cell_id).body.ok = FALSE)'
                    /\ (render_cell(image_id, cell_id) = NoneResult)'
              /\ \A other \in Ids \ {image_id} :
                    /\ has_image(other)' <=> has_image(other)
                    /\ has_image(other) =>
                         /\ image_paths'[other] = image_paths[other]
                         /\ files'[image_paths[other]] = files[image_paths[other]]
                    /\ has_grid_params(other)' <=> has_grid_params(other)
                    /\ has_grid_params(other) =>
                         grid_params'[other] = grid_params[other]
                    /\ other \in DOMAIN cell_ops' <=> other \in DOMAIN cell_ops
                    /\ other \in DOMAIN cell_ops => cell_ops'[other] = cell_ops[other]]_vars

\* C19 witness: the first id was deleted, the second is stored with its
\* grid and a log.
C19_Witness ==
    /\ next_id > 2
    /\ ~has_image(1) /\ ~has_grid_params(1) /\ 1 \notin DOMAIN cell_ops
    /\ has_image(2) /\ has_grid_params(2)
    /\ \E cell_id \in CellIds : Log(2, cell_id) # <<>>

\* C20 as claimed: a delete request on an id that is not stored is
\* answered NotFound (404), and no step of it changes the registry.
C20_DeleteUnknownNotFound ==
    \A image_id \in Ids :
        ~has_image(image_id) =>
            /\ delete_image_response(image_id).status = 404
            /\ ~ENABLED (delete_image(image_id) /\ store_vars' # store_vars)

\* the part of C20 that holds: no step of a delete of an id that is not
\* stored changes the registry
C20_DeleteUnknownKeepsStore ==
    \A image_id \in Ids :
        ~has_image(image_id) =>
            ~ENABLED (delete_image(image_id) /\ store_vars' # store_vars)

\* the ids that were issued and deleted since
DeletedIds == {image_id \in Ids : image_id < next_id /\ ~has_image(image_id)}

\* the request.json of an operation apply_cell_operation accepts
ValidRequest(data) ==
    /\ has_key(data, "type")
    /\ \/ data.type = "erase"
       \/ data.type = "rotate" /\ has_key(data, "degree")
          /\ data.degree \in {90, 180, 270}

\* C21 as claimed: on every id that was deleted, the preview, every slice
\* request and every request of a valid operation are answered NotFound
\* (404), and no step of them changes the registry.
C21_DeletedIdNotFound ==
    \A image_id \in DeletedIds :
        /\ get_image_preview_response(image_id).status = 404
        /\ \A data \in SliceRequests :
              /\ slice_response(image_id, data).status = 404
              /\ ~ENABLED (slice_image(image_id, data) /\ store_vars' # store_vars)
        /\ \A cell_id \in CellIds, data \in OpRequests :
              ValidRequest(data) =>
                 /\ apply_cell_operation_response(image_id, cell_id, data).status = 404
                 /\ ~ENABLED (apply_cell_operation(image_id, cell_id, data)
                              /\ store_vars' # store_vars)

\* the part of C21 that holds: the preview and the slice requests are
\* answered 404, the operation requests are not answered 200, and no step
\* of any of them changes the registry
C21_DeletedIdKeepsStore ==
    \A image_id \in DeletedIds :
        /\ get_image_preview_response(image_id).status = 404
        /\ \A data \in SliceRequests :
              /\ slice_response(image_id, data).status = 404
              /\ ~ENABLED (slice_image(image_id, data) /\ store_vars' # store_vars)
        /\ \A cell_id \in CellIds, data \in OpRequests :
              /\ apply_cell_operation_response(image_id, cell_id, data).status # 200
              /\ ~ENABLED (apply_cell_operation(image_id, cell_id, data)
                           /\ store_vars' # store_vars)

\* C22: every operation request that is not erase or rotate by 90, 180 or
\* 270 (an unknown type, no type, another degree, no degree) is answered
\* InvalidOperation (400) on every id and cell and no step of it changes
\* the registry; every entry of every log is Erase or Rotate{90|180|270}.
C22_InvalidOperationRejected ==
    /\ \A image_id \in Ids, cell_id \in CellIds, data \in OpRequests :
          ~ValidRequest(data) =>
             /\ apply_cell_operation_response(image_id, cell_id, data).status = 400
             /\ ~ENABLED (apply_cell_operation(image_id, cell_id, data)
                          /\ store_vars' # store_vars)
    /\ \A image_id \in DOMAIN cell_ops :
          \A cell_id \in DOMAIN cell_ops[image_id] :
             \A i \in 1 .. Len(cell_ops[image_id][cell_id]) :
                cell_ops[image_id][cell_id][i]
                   \in {[type |-> "erase"], Rot(90), Rot(180), Rot(270)}

\* C22 witness: a stored id whose logs hold an erase and a rotation, where
\* the invalid requests are answered 400.
C22_Witness ==
    \E image_id \in DOMAIN cell_ops :
        /\ Log(image_id, 0) = <<[type |-> "erase"]>>
        /\ Log(image_id, 1) = <<Rot(270)>>
        /\ apply_cell_operation_response(image_id, 0,
                                         [type |-> "rotate", degree |-> 45]).status = 400

\* C24: in every reachable state and for every id and cell, no step of the
\* cell preview or of the export changes the stored pictures, the grids
\* or the logs; render_cell and render_atlas being functions of these, a
\* second render returns what the first returned.
C24_RenderReadOnly ==
    \A image_id \in Ids, cell_id \in CellIds :
        /\ ~ENABLED (get_cell_preview(image_id, cell_id) /\ store_vars' # store_vars)
        /\ ~ENABLED (export_atlas(image_id) /\ store_vars' # store_vars)

\* C24 witness: a rendered cell with a log of three operations, whose
\* preview and atlas are pictures.
C24_Witness ==
    \E image_id \in RenderedIds, cell_id \in CellIds :
        /\ Len(Log(image_id, cell_id)) = 3
        /\ render_cell(image_id, cell_id).kind = "png"
        /\ render_atlas(image_id).kind = "png"

\* C25: for every rendered id, every cell and every valid operation, with
\* the logs as they stand after the operation was appended and then
\* undone, the cell preview and the atlas are what they are now.
C25_UndoRestoresRender ==
    \A image_id \in RenderedIds, cell_id \in CellIds, op \in ValidOps :
        LET undone == undo_cell_op(add_cell_op(cell_ops, image_id, cell_id, op),
                                   image_id, cell_id)
            image == get_image(image_id)
            grid == get_grid_params(image_id)
        IN /\ can_undo(add_cell_op(cell_ops, image_id, cell_id, op), image_id, cell_id)
           /\ render_cell_with(get_cell_ops(undone, image_id, cell_id),
                               image, grid, cell_id)
                = render_cell(image_id, cell_id)
           /\ render_atlas_with(undone, image, grid, image_id)
                = render_atlas(image_id)

\* C25 witness: a cell of a two-column grid whose log holds a rotation and
\* an erase, and a second cell that never had a log (the undo leaves an
\* empty log there).
C25_Witness ==
    \E image_id \in RenderedIds :
        /\ WellFormed(get_grid_params(image_id))
        /\ get_grid_params(image_id).cols = 2
        /\ Log(image_id, 0) = <<Rot(90), [type |-> "erase"]>>
        /\ 1 \notin DOMAIN cell_ops[image_id]
        /\ render_atlas(image_id).kind = "png"

\* C26: for every id that has no log dict and every cell that has no log,
\* get_cell_ops returns the empty list, and no step of the requests that
\* call it (cell preview, export) adds an entry or a log to cell_ops.
C26_GetOpsAbsent ==
    \A image_id \in Ids, cell_id \in CellIds :
        (image_id \notin DOMAIN cell_ops \/ cell_id \notin DOMAIN cell_ops[image_id]) =>
            /\ get_cell_ops(cell_ops, image_id, cell_id) = <<>>
            /\ ~ENABLED (get_cell_preview(image_id, cell_id) /\ cell_ops' # cell_ops)
            /\ ~ENABLED (export_atlas(image_id) /\ cell_ops' # cell_ops)

\* C26 witness: an id that is not stored, and a stored, sliced id with a
\* log on one cell and none on the other.
C26_Witness ==
    /\ \E image_id \in Ids : image_id \notin DOMAIN cell_ops
    /\ \E image_id \in RenderedIds :
          /\ Log(image_id, 0) # <<>>
          /\ 1 \notin DOMAIN cell_ops[image_id]

\* C27: in every reachable state, every id that has a stored grid or a log
\* dict (hence any log) also has a stored picture, and every stored file
\* is the picture of a stored id.
C27_NoOrphans ==
    /\ \A image_id \in DOMAIN grid_params \cup DOMAIN cell_ops : has_image(image_id)
    /\ \A path \in DOMAIN files :
          \E image_id \in DOMAIN image_paths : image_paths[image_id] = path

\* C27 witness: the first id had its picture, grid and logs deleted; the
\* second is stored with a grid and a log.
C27_Witness ==
    /\ 1 \in DeletedIds
    /\ has_image(2) /\ has_grid_params(2)
    /\ Log(2, 1) # <<>>

\* the cells of image_id that hold a log and lie outside its grid
C28_StaleCells(image_id) ==
    {cell_id \in CellIds : /\ cell_id \notin GridCells(get_grid_params(image_id))
                           /\ Log(image_id, cell_id) # <<>>}

\* C28 as claimed: for every stored picture with a well-formed grid, the
\* log of a cell index >= rows*cols stays stored and no request reaches
\* it: the cell preview of that index is answered as with an empty log,
\* the export likewise, and no step of an operation or undo request
\* changes it.
C28_StaleLogsUnreachable ==
    \A image_id \in RenderedIds :
        WellFormed(get_grid_params(image_id)) =>
            \A cell_id \in C28_StaleCells(image_id) :
                /\ get_cell_preview_response(image_id, cell_id)
                     = render_response(render_cell_with(<<>>, get_image(image_id),
                                           get_grid_params(image_id), cell_id))
                /\ export_atlas_response(image_id)
                     = render_response(render_atlas_with(
                           dict_set(cell_ops, image_id,
                                    dict_pop(cell_ops[image_id], cell_id)),
                           get_image(image_id), get_grid_params(image_id), image_id))
                /\ \A data \in GridOpRequests :
                      ~ENABLED (/\ apply_cell_operation(image_id, cell_id, data)
                                /\ Log(image_id, cell_id)' # Log(image_id, cell_id))
                /\ ~ENABLED (/\ undo_cell_operation(image_id, cell_id)
                             /\ Log(image_id, cell_id)' # Log(image_id, cell_id))

\* the part of C28 that holds: the export does not read the log of a cell
\* index >= rows*cols
C28_StaleLogsNotExported ==
    \A image_id \in RenderedIds :
        WellFormed(get_grid_params(image_id)) =>
            \A cell_id \in C28_StaleCells(image_id) :
                export_atlas_response(image_id)
                  = render_response(render_atlas_with(
                        dict_set(cell_ops, image_id,
                                 dict_pop(cell_ops[image_id], cell_id)),
                        get_image(image_id), get_grid_params(image_id), image_id))

\* the pixel store_image has to keep for the pixel p of a picture of the
\* mode: p itself with its alpha for RGBA, else p's colour, opaque
C29_Expected(mode, p) ==
    IF mode = "RGBA" THEN p
    ELSE IF mode = "L" THEN <<p[1], p[1], p[1], 255>>
    ELSE <<p[1], p[2], p[3], 255>>

\* every picture held in the registry has four channels in every pixel
C29_AllRGBA ==
    \A image_id \in DOMAIN image_paths :
        has_image(image_id) =>
            LET png == files[image_paths[image_id]]
            IN \A p \in Coords(png.w, png.h) : Len(PixelAt(png, p[1], p[2])) = 4

\* C29: every picture held in the registry is RGBA, and every upload step
\* of a picture stores, under the id it answers with, a picture of the
\* uploaded width and height whose pixels are the uploaded ones, with
\* their alpha for an RGBA upload and opaque (alpha 255) for any other.
C29_StoredAsRGBA ==
    /\ []C29_AllRGBA
    /\ [][\A file \in Uploads :
             (file.kind = "image" /\ upload_image(file)) =>
                 LET image_id == upload_response(file).body.imageId
                     png == files'[image_paths'[image_id]]
                 IN /\ image_id \in DOMAIN image_paths'
                    /\ image_paths'[image_id] \in DOMAIN files'
                    /\ png.w = file.image.w /\ png.h = file.image.h
                    /\ upload_response(file).body.width = file.image.w
                    /\ upload_response(file).body.height = file.image.h
                    /\ \A p \in Coords(file.image.w, file.image.h) :
                          PixelAt(png, p[1], p[2])
                            = C29_Expected(file.image.mode, file.image.px[p])]_vars

\* C29 witness: the registry holds a 2x2 picture uploaded as RGB, now
\* opaque, and a 1x2 picture uploaded as RGBA that kept its alpha of 128.
C29_Witness ==
    \E a \in DOMAIN image_paths, b \in DOMAIN image_paths :
        /\ has_image(a) /\ has_image(b)
        /\ get_image(a).w = 2 /\ get_image(a).h = 2
        /\ \A p \in Coords(2, 2) : get_image(a).px[p][4] = 255
        /\ get_image(b).w = 1 /\ get_image(b).h = 2
        /\ get_image(b).px[<<0, 0>>][4] = 128

\* the operation a valid request asks for
C30_Op(data) == IF data.type = "erase" THEN [type |-> "erase"] ELSE Rot(data.degree)

\* the step appends op to the log of (image_id, cell_id), which exists
\* after it, and leaves the logs of the other cells as they were
C30_Appended(image_id, cell_id, op) ==
    /\ image_id \in DOMAIN cell_ops'
    /\ cell_id \in DOMAIN cell_ops'[image_id]
    /\ cell_ops'[image_id][cell_id] = Append(Log(image_id, cell_id), op)
    /\ \A other \in CellIds \ {cell_id} :
          get_cell_ops(cell_ops', image_id, other) = Log(image_id, other)

\* C30: on every stored id, with or without a grid, for every cell index,
\* inside the grid or not, a request of a valid operation is answered
\* 200 ok and each of its steps appends exactly that one entry to the
\* cell's log, creating the log where the cell had none.
C30_ValidOpAppends ==
    \A image_id \in Ids, cell_id \in CellIds, data \in GridOpRequests :
        (has_image(image_id) /\ ValidRequest(data)) =>
            /\ apply_cell_operation_response(image_id, cell_id, data)
                 = Response(200, [ok |-> TRUE])
            /\ ENABLED (/\ apply_cell_operation(image_id, cell_id, data)
                        /\ C30_Appended(image_id, cell_id, C30_Op(data)))
            /\ ~ENABLED (/\ apply_cell_operation(image_id, cell_id, data)
                         /\ ~C30_Appended(image_id, cell_id, C30_Op(data)))

\* C30 witness: a picture with a grid of one cell and a log of two
\* operations on cell 1, outside the grid.
C30_Witness ==
    /\ has_image(1) /\ has_grid_params(1)
    /\ WellFormed(get_grid_params(1))
    /\ get_grid_params(1).rows * get_grid_params(1).cols = 1
    /\ Len(Log(1, 1)) = 2

\* C30 second case: a picture without grid whose first operation created
\* the log of a cell.
C30_WitnessNoGrid ==
    /\ has_image(1) /\ ~has_grid_params(1)
    /\ Len(Log(1, 0)) = 1 /\ 1 \notin DOMAIN cell_ops[1]

\* the response a render gives when every read sees the registry contents s
C23_RenderOf(s) ==
    IF s.image = <<>> \/ s.grid = <<>> THEN NoneResult
    ELSE IF call.kind = "cell"
    THEN render_cell_with(get_cell_ops(dict_set(EmptyDict, call.image_id, s.ops),
                                       call.image_id, call.cell_id),
                          s.image[1], s.grid[1], call.cell_id)
    ELSE render_atlas_with(dict_set(EmptyDict, call.image_id, s.ops),
                           s.image[1], s.grid[1], call.image_id)

\* C23: a getPreview or exportAtlas that runs while slice, applyOp, undoOp
\* or delete requests are handled answers with the render of the picture,
\* grid and logs the registry held together at one instant of the call.
C23_RenderAtomic ==
    call.pc = "done" => \E s \in seen : call.result = C23_RenderOf(s)

\* the primed registry differs from the unprimed one somewhere else than in
\* the log of (image_id, cell_id)
C31_OtherChanged(image_id, cell_id) ==
    \/ image_paths' # image_paths
    \/ files' # files
    \/ grid_params' # grid_params
    \/ DOMAIN cell_ops' # DOMAIN cell_ops
    \/ \E i \in DOMAIN cell_ops : i # image_id /\ cell_ops'[i] # cell_ops[i]
    \/ \E i \in Ids, c \in CellIds :
          /\ <<i, c>> # <<image_id, cell_id>>
          /\ get_cell_ops(cell_ops', i, c) # get_cell_ops(cell_ops, i, c)

\* C31: an operation request and an undo request on (id, cell) change only
\* the log of that cell: the logs of the other cells of the id, the id's
\* grid and stored picture, and all that belongs to other ids stay as they
\* are (the renders of the other cells are functions of these).
C31_OnlyThatLog ==
    \A image_id \in Ids, cell_id \in CellIds :
        /\ \A data \in OpRequests :
              ~ENABLED (/\ apply_cell_operation(image_id, cell_id, data)
                        /\ C31_OtherChanged(image_id, cell_id))
        /\ ~ENABLED (/\ undo_cell_operation(image_id, cell_id)
                     /\ C31_OtherChanged(image_id, cell_id))

\* C31 witness: both cells of the sliced id 1 hold an operation while id 2
\* is stored, so the second operation was logged next to another cell's
\* log, a grid and another id.
C31_Witness ==
    /\ has_image(1) /\ has_grid_params(1) /\ has_image(2)
    /\ Len(Log(1, 0)) = 1 /\ Len(Log(1, 1)) = 1

\* the number of entries of the list l that are op
RECURSIVE C32_Count(_, _)
C32_Count(op, l) ==
    IF l = <<>> THEN 0
    ELSE (IF Head(l) = op THEN 1 ELSE 0) + C32_Count(op, Tail(l))

\* no thread is inside a handler
C32_Quiet == \A t \in Threads : reqs[t].pc \in {"idle", "done"}

\* C32: once the operation requests handled at the same time have all
\* returned, every operation acknowledged with ok on a cell of the stored
\* id is in that cell's log exactly once, also where two requests are both
\* the first operation of the cell.
C32_NoLostOperation ==
    C32_Quiet /\ has_image(1) /\ 1 \in DOMAIN cell_ops =>
        \A cell_id \in CellIds, data \in GridOpRequests :
            C32_Count(parse_op(data), Log(1, cell_id))
                = C32_Count(parse_op(data), shadow[1][cell_id])

\* C33: once a delete request and the slice or operation requests handled
\* at the same time on the id have all returned, the id has its picture and
\* its log dict, or it has no picture, no grid and no logs.
C33_EntryWholeOrGone ==
    C32_Quiet =>
        \/ has_image(1) /\ 1 \in DOMAIN cell_ops
        \/ /\ 1 \notin DOMAIN image_paths
           /\ image_path(1) \notin DOMAIN files
           /\ 1 \notin DOMAIN grid_params
           /\ 1 \notin DOMAIN cell_ops

\* a step that replaces the grid of the stored, sliced id 1 by a grid of
\* positive rows, cols and cell sizes
C34_Reslice ==
    /\ has_image(1) /\ has_grid_params(1)
    /\ grid_params' # grid_params
    /\ 1 \in DOMAIN grid_params' /\ WellFormed(grid_params'[1])

\* C34: after a re-slice the preview of every cell i of the new grid is the
\* new rectangle of index i with the log recorded for index i under the old
\* grid replayed on it; a log that ends with an erase gives a transparent
\* picture of the new cell size.
C34_OldLogOnNewCell ==
    [][C34_Reslice =>
         \A cell_id \in CellIds :
             LET g == grid_params'[1]
                 x == (cell_id % g.cols) * g.cellWidth
                 y == (cell_id \div g.cols) * g.cellHeight
                 ops == Log(1, cell_id)
             IN cell_id < g.rows * g.cols =>
                  /\ render_cell(1, cell_id)' =
                       PngResult(replay_from(
                           crop(get_image(1), x, y, x + g.cellWidth, y + g.cellHeight),
                           ops, 1, g.cellWidth, g.cellHeight))
                  /\ (ops # <<>> /\ ops[Len(ops)].type = "erase") =>
                       render_cell(1, cell_id)' =
                           PngResult(new_image("RGBA", g.cellWidth, g.cellHeight,
                                               Transparent))]_vars

\* C34 witness: the 5x3 picture is sliced into 1x1 cells, the log of cell 1
\* is a rotation and an erase, and a slice request replaces the grid by one
\* of 2x2 cells that has a cell 1.
C34_Witness ==
    /\ has_image(1) /\ get_image(1).w = 5 /\ has_grid_params(1)
    /\ get_grid_params(1).cellWidth = 1
    /\ Log(1, 1) = <<[type |-> "rotate", degree |-> 90], [type |-> "erase"]>>
    /\ ENABLED (/\ slice_image(1, [cellWidth |-> 2, cellHeight |-> 2])
                /\ grid_params'[1].cols = 2 /\ grid_params'[1].cellWidth = 2)

\* C35: the preview of a stored id is the picture as store_image wrote it
\* at the upload: no step changes the preview of an id that stays stored
\* (slice, operation and undo requests keep every id stored), the step that
\* stores an id makes its preview the converted upload, and an id that is
\* not stored is answered 404.
C35_PreviewAsUploaded ==
    [][\A image_id \in Ids :
          /\ has_image(image_id) /\ has_image(image_id)' =>
                get_image_preview_response(image_id)'
                    = get_image_preview_response(image_id)
          /\ ~has_image(image_id) /\ has_image(image_id)' =>
                \E file \in Uploads :
                    /\ file.kind = "image"
                    /\ get_image_preview_response(image_id)'
                           = Response(200, stored_png(file.image))
          /\ ~has_image(image_id)' =>
                get_image_preview_response(image_id)'.status = 404]_vars

\* C35 witness: id 1 is sliced and holds an erase and a rotation, its
\* atlas differs from the picture, and its preview is answered 200.
C35_Witness ==
    /\ has_image(1) /\ has_grid_params(1)
    /\ Log(1, 0) = <<[type |-> "erase"]>>
    /\ Log(1, 1) = <<[type |-> "rotate", degree |-> 90]>>
    /\ get_image_preview_response(1).status = 200
    /\ export_atlas_response(1).status = 200
    /\ export_atlas_response(1).body # get_image_preview_response(1).body

\* the pixels of the rectangle of cell cell_id under grid g: the crop box of
\* render_cell, with Python's // and % (the sign of % follows the divisor)
C36_Rect(g, cell_id) ==
    LET row == cell_id \div g.cols
        col == cell_id - g.cols * (cell_id \div g.cols)
        x == col * g.cellWidth
        y == row * g.cellHeight
    IN (x .. (x + g.cellWidth - 1)) \X (y .. (y + g.cellHeight - 1))

\* the cells of g partition the region cols*cellWidth x rows*cellHeight,
\* which lies inside the picture
C36_Partition(g, image) ==
    LET cells == 0 .. (g.rows * g.cols - 1)
        region == Coords(g.cols * g.cellWidth, g.rows * g.cellHeight)
    IN /\ \A i \in cells, j \in cells :
             i # j => C36_Rect(g, i) \cap C36_Rect(g, j) = {}
       /\ \A i \in cells :
             /\ C36_Rect(g, i) \subseteq Coords(image.w, image.h)
             /\ C36_Rect(g, i) \subseteq region
       /\ UNION {C36_Rect(g, i) : i \in cells} = region
       /\ region \subseteq Coords(image.w, image.h)

\* C36 as claimed: for every stored grid the rectangles of the cells
\* 0..rows*cols-1 are pairwise disjoint, lie inside the stored picture and
\* inside the region cols*cellWidth x rows*cellHeight, and cover that region
\* exactly, so the remainder strip is in no cell.
C36_CellsPartitionRegion ==
    has_image(1) /\ has_grid_params(1) =>
        C36_Partition(get_grid_params(1), get_image(1))

\* the part of C36 that holds: the same for every stored grid that has no
\* field below zero.
C36_PartitionUnlessNegative ==
    LET g == get_grid_params(1)
    IN (/\ has_image(1) /\ has_grid_params(1)
        /\ g.rows >= 0 /\ g.cols >= 0 /\ g.cellWidth >= 0 /\ g.cellHeight >= 0) =>
           C36_Partition(g, get_image(1))

\* C37: an upload with no file part, an empty filename, bytes that are no
\* picture or a picture cut short is answered with an error (400, 400, 500,
\* 500) and changes nothing: no id is issued or registered, no file is
\* written, no grid and no log dict is created.
C37_FailedUploadKeepsStore ==
    \A file \in BadUploads :
        /\ upload_response(file).status
               = (IF file.kind \in {"nofile", "emptyname"} THEN 400 ELSE 500)
        /\ ~ENABLED (/\ upload_image(file)
                     /\ <<store_vars, next_id>>' # <<store_vars, next_id>>)

\* C37 witness: the registry holds the sliced id 1 with a log and can take
\* one more id, and a failed upload is handled.
C37_Witness ==
    /\ has_image(1) /\ has_grid_params(1) /\ Len(Log(1, 0)) = 1
    /\ next_id = 2
    /\ \A file \in BadUploads : ENABLED upload_image(file)

=============================================================================
